---- MODULE Spec2Model ----
(***************************************************************************)
(* Token embedding visualisation: the App component (embedding load,       *)
(* settings, analogy list) and the 3D canvas component (motion field,      *)
(* analogy solver, analogy scene entities, frame loop and prop watchers).  *)
(*                                                                         *)
(* Numbers.  JavaScript numbers are modelled as fixed-point integers:      *)
(* a display coordinate, a velocity and a scale are counted in units of    *)
(* 1/FP, divisions round to the nearest unit (RDiv).  Raw embedding        *)
(* coordinates and projection scores are integers.  A Euclidean distance   *)
(* d is represented by its square d*d: Math.sqrt is strictly increasing    *)
(* on the non-negative numbers, so comparing and sorting by the square is  *)
(* comparing and sorting by the distance.                                  *)
(*                                                                         *)
(* Indices.  Sequences are 1-based; NotFound (0) stands for the -1 that    *)
(* Array.prototype.findIndex returns.                                      *)
(*                                                                         *)
(* Objects.  Every THREE object an analogy owns carries the id it got      *)
(* when it was constructed (nextId counts constructions); id 0 is null.    *)
(***************************************************************************)
EXTENDS Integers, Sequences, FiniteSets, TLC

\* ------------------------------------------------------------------ bounds
FP == 60            \* fixed-point units per 1.0
MaxTicks == 1       \* animation frames run in spatial modes
MaxEvents == 4      \* user events (settings, dimension button, edits)
MaxEdits == 1       \* of them, edits of an analogy field
NumAnalogies == 2   \* length of the default analogy list
MaxProjected == 4   \* points handed to normalize3D alone
MaxPresses == 10    \* presses of the dimension and mode buttons alone
MaxPoints == 6      \* points handed to the nearest-neighbour solver alone
MaxHandles == 3     \* distinct requestAnimationFrame handles
SpeedUnit == 100    \* units of the auto-rotation speed per 1.0

\* ------------------------------------------------------- program constants
resultCount == 5
springK == 120
damping == 12
dtInv == 60         \* animation.dt = 1 / 60
pointCloud == 10    \* scales.pointCloud

\* ------------------------------------------------------------ arithmetic
\* a / b rounded to the nearest integer (b > 0)
RDiv(a, b) == (2 * a + b) \div (2 * b)

Vec(x, y, z) == [x |-> x, y |-> y, z |-> z]
ZeroVec == Vec(0, 0, 0)
VAdd(a, b) == Vec(a.x + b.x, a.y + b.y, a.z + b.z)
VSub(a, b) == Vec(a.x - b.x, a.y - b.y, a.z - b.z)
VScale(a, k) == Vec(a.x * k, a.y * k, a.z * k)
VRDiv(a, d) == Vec(RDiv(a.x, d), RDiv(a.y, d), RDiv(a.z, d))
\* squared length of a vector
LenSq(a) == a.x * a.x + a.y * a.y + a.z * a.z
\* squared distance between two positions (Vector3.distanceTo, squared)
DistSq(a, b) == LenSq(VSub(a, b))

Range(s) == {s[i] : i \in 1..Len(s)}
SetMin(S) == CHOOSE m \in S : \A v \in S : m <= v
SetMax(S) == CHOOSE m \in S : \A v \in S : m >= v
MinNat(a, b) == IF a <= b THEN a ELSE b
MaxInt(a, b) == IF a >= b THEN a ELSE b

\* Math.sqrt on a square of units, rounded down to the unit
RECURSIVE SqrtBetween(_, _, _)
SqrtBetween(n, lo, hi) ==
  IF lo >= hi THEN lo
  ELSE LET mid == (lo + hi + 1) \div 2
       IN IF mid * mid <= n THEN SqrtBetween(n, mid, hi)
          ELSE SqrtBetween(n, lo, mid - 1)

ISqrt(n) == SqrtBetween(n, 0, MinNat(n, 46340))

\* ------------------------------------------------------------- the dataset
NotFound == 0
Placeholder == "?"
Absent == "xyzzy"   \* a token that no dataset contains

\* The embedding payload that the fetch delivers (token, 4-D vector).
Dataset ==
  << [token |-> "italy", embedding |-> <<0, 0, 0, 1>>],
     [token |-> "pasta", embedding |-> <<1, 0, 0, 1>>],
     [token |-> "japan", embedding |-> <<5, 5, 5, 0>>],
     [token |-> "ramen", embedding |-> <<6, 5, 5, 0>>] >>

\* Scores of the first three principal components, per dataset row.
PCAScores ==
  << Vec(-3, 1, 0), Vec(-2, -1, 1), Vec(1, 2, 0), Vec(4, 0, -1) >>

AnalogyColors == << "#60a5fa", "#f87171", "#fbbf24", "#4ade80" >>

\* the default analogy list, one triple per row, over the dataset's tokens
defaultAnalogies ==
  [i \in 1..NumAnalogies |->
     IF i % 2 = 1
       THEN [from |-> "italy", to |-> "pasta", apply |-> "japan",
             color |-> AnalogyColors[((i - 1) % 4) + 1]]
       ELSE [from |-> "japan", to |-> "ramen", apply |-> "italy",
             color |-> AnalogyColors[((i - 1) % 4) + 1]]]

\* values the sidebar can put into a field of an analogy
EditValues == {"ramen", Absent}
Fields == {"from", "to", "apply"}

Modes == {"pca_reduction", "embedding_reduction", "embedding_full"}
Full == "embedding_full"

\* ---------------------------------------------------------------- state
VARIABLES
  \* App
  embeddings, loading, error, dimensions, projectionMode, showArrows,
  sphereCount, activeAnalogies, showAllAnalogies,
  \* canvas
  mounted, pointStates, analogyStates, analogyResults,
  pointsGroupVisible, labelsGroupVisible, noVisualVisible,
  nextId, ticks, events, edits,
  \* the analogy solver called on its own
  solverPoints, solverTarget, solverCount, solverOut,
  \* normalize3D called on its own
  projectorPoints, projectorScale, projectorOut,
  \* canvas: the frame loop, the listeners on the renderer's element and
  \* the auto-rotation
  animationId, frameRequests, listeners, isInteracting, currentSpeed,
  unmounted

vars == << embeddings, loading, error, dimensions, projectionMode, showArrows,
           sphereCount, activeAnalogies, showAllAnalogies,
           mounted, pointStates, analogyStates, analogyResults,
           pointsGroupVisible, labelsGroupVisible, noVisualVisible,
           nextId, ticks, events, edits,
           solverPoints, solverTarget, solverCount, solverOut,
           projectorPoints, projectorScale, projectorOut,
           animationId, frameRequests, listeners, isInteracting, currentSpeed,
           unmounted >>

solverVars == << solverPoints, solverTarget, solverCount, solverOut >>
projectorVars == << projectorPoints, projectorScale, projectorOut >>
frameVars == << animationId, frameRequests, listeners, isInteracting,
               currentSpeed >>
loopVars == << frameVars, unmounted >>
harnessVars == << solverVars, projectorVars, loopVars >>

appVars == << embeddings, loading, error, dimensions, projectionMode,
              showArrows, sphereCount, activeAnalogies, showAllAnalogies >>


\* ------------------------------------------------------------ App: props
\* visibleAnalogies: the whole list, or only its first entry
visibleAnalogies(active, showAll) ==
  IF showAll THEN active ELSE SubSeq(active, 1, MinNat(1, Len(active)))

\* first three principal-component scores of every row (the PCA library is
\* represented by the table PCAScores)
reduceToPCA3D(emb) ==
  [i \in 1..Len(emb) |->
     [token |-> emb[i].token, x |-> PCAScores[i].x, y |-> PCAScores[i].y,
      z |-> PCAScores[i].z]]

\* element i of a vector, 0 when the vector is shorter (the ?? 0 of the code)
At0(v, i) == IF i <= Len(v) THEN v[i] ELSE 0

\* first three raw embedding coordinates of every row
reduceToNaive3D(emb) ==
  [i \in 1..Len(emb) |->
     [token |-> emb[i].token, x |-> At0(emb[i].embedding, 1),
      y |-> At0(emb[i].embedding, 2), z |-> At0(emb[i].embedding, 3)]]

points3D(emb, dims, mode) ==
  IF dims > 3 THEN << >>
  ELSE IF mode = "pca_reduction" THEN reduceToPCA3D(emb)
  ELSE reduceToNaive3D(emb)

\* 1D: first component on the x axis; 2D: x->x, y->z; 3D: x->x, y->z, z->y
currentPoints(emb, dims, mode) ==
  LET pts == points3D(emb, dims, mode) IN
  [i \in 1..Len(pts) |->
     IF dims = 1 THEN [token |-> pts[i].token, x |-> pts[i].x, y |-> 0, z |-> 0]
     ELSE IF dims = 2
       THEN [token |-> pts[i].token, x |-> pts[i].x, y |-> 0, z |-> pts[i].y]
     ELSE [token |-> pts[i].token, x |-> pts[i].x, y |-> pts[i].z, z |-> pts[i].y]]

\* the props the App hands to the canvas
PropsOf(emb, dims, mode, arrows, spheres, active, showAll) ==
  [ points |-> currentPoints(emb, dims, mode),
    dimensions |-> dims,
    projectionMode |-> mode,
    originalEmbeddings |-> emb,
    showArrows |-> arrows,
    sphereCount |-> spheres,
    analogies |-> visibleAnalogies(active, showAll) ]

props == PropsOf(embeddings, dimensions, projectionMode, showArrows,
                 sphereCount, activeAnalogies, showAllAnalogies)

\* -------------------------------------------------------------- Projector
NormAxis(v, mn, mx, scale) ==
  IF mx - mn > 0
    THEN RDiv((v - mn) * scale * FP, mx - mn) - RDiv(scale * FP, 2)
    ELSE v * FP

\* a normalization that maps every axis with a range onto [0, scale]
normalize3DUncentred(points, scale) ==
  IF Len(points) = 0 THEN << >>
  ELSE
    LET xs == {points[i].x : i \in 1..Len(points)}
        ys == {points[i].y : i \in 1..Len(points)}
        zs == {points[i].z : i \in 1..Len(points)}
        axis(v, mn, mx) == IF mx - mn > 0
                             THEN RDiv((v - mn) * scale * FP, mx - mn)
                             ELSE v * FP
    IN [i \in 1..Len(points) |->
          [token |-> points[i].token,
           x |-> axis(points[i].x, SetMin(xs), SetMax(xs)),
           y |-> axis(points[i].y, SetMin(ys), SetMax(ys)),
           z |-> axis(points[i].z, SetMin(zs), SetMax(zs))]]

\* per axis: remap to [-scale/2, scale/2], or keep the value when the axis
\* has no variance; the result is in fixed-point units
normalize3D(points, scale) ==
  IF Len(points) = 0 THEN << >>
  ELSE
    LET xs == {points[i].x : i \in 1..Len(points)}
        ys == {points[i].y : i \in 1..Len(points)}
        zs == {points[i].z : i \in 1..Len(points)}
    IN [i \in 1..Len(points) |->
          [token |-> points[i].token,
           x |-> NormAxis(points[i].x, SetMin(xs), SetMax(xs), scale),
           y |-> NormAxis(points[i].y, SetMin(ys), SetMax(ys), scale),
           z |-> NormAxis(points[i].z, SetMin(zs), SetMax(zs), scale)]]

\* scales.byDimension[d] ?? 1.0
scaleByDimension(d) ==
  IF d = 1 THEN RDiv(FP, 2) ELSE IF d = 2 THEN RDiv(3 * FP, 4) ELSE FP

\* index of the first point with the token, NotFound when there is none
FindIndex(points, tok) ==
  IF \E i \in 1..Len(points) : points[i].token = tok
    THEN CHOOSE i \in 1..Len(points) :
           /\ points[i].token = tok
           /\ \A j \in 1..(i - 1) : points[j].token # tok
    ELSE NotFound

\* ----------------------------------------------------------- Analogy Solver
RECURSIVE InsertByDistance(_, _)
\* e placed behind every element whose distance is <= its own
InsertByDistance(e, s) ==
  IF s = << >> THEN << e >>
  ELSE IF s[Len(s)].distance <= e.distance THEN Append(s, e)
  ELSE Append(InsertByDistance(e, SubSeq(s, 1, Len(s) - 1)), s[Len(s)])

\* the list left in its input order
UnsortedByDistance(s) == s

RECURSIVE SortByDistance(_)
\* Array.prototype.sort with (a, b) => a.distance - b.distance: ascending,
\* equal distances keep their input order
SortByDistance(s) ==
  IF s = << >> THEN << >>
  ELSE InsertByDistance(s[Len(s)], SortByDistance(SubSeq(s, 1, Len(s) - 1)))

Slice(s, count) == SubSeq(s, 1, MinNat(count, Len(s)))

\* nearest point states to a position, by current (animated) position
findNearestTokensWithDistances(position, count, points, ps) ==
  LET distances ==
        [i \in 1..Len(ps) |->
           [token |-> IF i <= Len(points) THEN points[i].token ELSE Placeholder,
            distance |-> DistSq(position, ps[i].current)]]
  IN Slice(SortByDistance(distances), count)

RECURSIVE SumSq(_, _, _)
\* sum over i <= n of (target[i] - embedding[i])^2, missing entries read as 0
SumSq(target, embedding, n) ==
  IF n = 0 THEN 0
  ELSE SumSq(target, embedding, n - 1)
       + (At0(target, n) - At0(embedding, n)) * (At0(target, n) - At0(embedding, n))

\* nearest tokens to a vector of the full embedding space
findNearestTokensFullEmbedding(targetEmbedding, count, emb) ==
  LET distances ==
        [i \in 1..Len(emb) |->
           [token |-> emb[i].token,
            distance |-> SumSq(targetEmbedding, emb[i].embedding,
                               Len(targetEmbedding))]]
      sorted == Slice(SortByDistance(distances), count)
  IN [i \in 1..Len(sorted) |-> sorted[i].token]

\* a degenerate result that lists no token at all
DegenerateResultEmpty(analogy) ==
  [from |-> analogy.from, to |-> analogy.to, apply |-> analogy.apply,
   results |-> << >>, color |-> analogy.color]

DegenerateResult(analogy) ==
  [from |-> analogy.from, to |-> analogy.to, apply |-> analogy.apply,
   results |-> << Placeholder >>, color |-> analogy.color]

\* the offset taken the wrong way round: apply - (to - from)
resultEmbeddingReversed(fromEmb, toEmb, applyEmb) ==
  [i \in 1..Len(applyEmb) |-> At0(applyEmb, i) - (At0(toEmb, i) - At0(fromEmb, i))]

\* apply + (to - from), per coordinate of the apply vector
resultEmbedding(fromEmb, toEmb, applyEmb) ==
  [i \in 1..Len(applyEmb) |-> At0(applyEmb, i) + (At0(toEmb, i) - At0(fromEmb, i))]

computeFullEmbeddingAnalogies(p) ==
  LET emb == p.originalEmbeddings
      one(analogy) ==
        LET f == FindIndex(emb, analogy.from)
            t == FindIndex(emb, analogy.to)
            a == FindIndex(emb, analogy.apply)
        IN IF f = NotFound \/ t = NotFound \/ a = NotFound
             THEN DegenerateResult(analogy)
             ELSE [from |-> analogy.from, to |-> analogy.to,
                   apply |-> analogy.apply,
                   results |-> findNearestTokensFullEmbedding(
                                 resultEmbedding(emb[f].embedding, emb[t].embedding,
                                                 emb[a].embedding),
                                 resultCount, emb),
                   color |-> analogy.color]
  IN [i \in 1..Len(p.analogies) |-> one(p.analogies[i])]


\* ------------------------------------------------------- canvas: objects
NullArrow == [id |-> 0, visible |-> FALSE, position |-> ZeroVec,
              direction |-> ZeroVec, lengthSq |-> 0, stemLength |-> 0,
              headY |-> 0]
NullSprite == [id |-> 0, visible |-> FALSE, position |-> ZeroVec, scale |-> 0]

\* objects constructed for one analogy: two arrows, the question mark and
\* resultCount spheres
ObjectsPerAnalogy == resultCount + 3

\* arrow.headLength (0.3) and the shortest stem (0.01), in units
headLength == RDiv(3 * FP, 10)
minStemLength == RDiv(FP, 100)

\* the stem of an arrow of the given squared length
StemLength(lengthSq) == MaxInt(minStemLength, ISqrt(lengthSq) - headLength)

\* A thick arrow group: a stem cylinder of height stemLength standing on the
\* origin and a head cone of height headLength centred at headY, both along
\* the group's axis.  direction is the difference vector that the code
\* normalizes (a zero vector stays zero), lengthSq the square of its length.
createThickArrow(direction, origin, lengthSq, id, visible) ==
  [id |-> id, visible |-> visible, position |-> origin,
   direction |-> direction, lengthSq |-> lengthSq,
   stemLength |-> StemLength(lengthSq),
   headY |-> StemLength(lengthSq) + RDiv(headLength, 2)]

\* same group, new direction, length and origin
updateThickArrow(arrowGroup, direction, origin, lengthSq) ==
  [arrowGroup EXCEPT !.position = origin, !.direction = direction,
                     !.lengthSq = lengthSq,
                     !.stemLength = StemLength(lengthSq),
                     !.headY = StemLength(lengthSq) + RDiv(headLength, 2)]

\* the canvas state as one record, so that handlers compose
canvas ==
  [ pointStates |-> pointStates, analogyStates |-> analogyStates,
    analogyResults |-> analogyResults,
    pointsGroupVisible |-> pointsGroupVisible,
    labelsGroupVisible |-> labelsGroupVisible,
    noVisualVisible |-> noVisualVisible, nextId |-> nextId ]

\* ---------------------------------------------------- canvas: visibility
\* a visibility update that looks at the toggles only, not at the mode
updateVisibilityTogglesOnly(p, c) ==
  LET isFullMode == p.projectionMode = Full
      upd(state) ==
        [state EXCEPT
           !.fromToArrow = IF @.id # 0 THEN [@ EXCEPT !.visible = p.showArrows] ELSE @,
           !.applyArrow = IF @.id # 0 THEN [@ EXCEPT !.visible = p.showArrows] ELSE @,
           !.questionMark = IF @.id # 0 THEN [@ EXCEPT !.visible = p.showArrows] ELSE @,
           !.spheres = [i \in 1..Len(@) |->
                          [@[i] EXCEPT !.visible = p.sphereCount > i - 1]]]
  IN [c EXCEPT
        !.pointsGroupVisible = ~isFullMode,
        !.labelsGroupVisible = ~isFullMode,
        !.analogyStates = [i \in 1..Len(@) |-> upd(@[i])],
        !.noVisualVisible = isFullMode]

updateVisibility(p, c) ==
  LET isFullMode == p.projectionMode = Full
      upd(state) ==
        [state EXCEPT
           !.fromToArrow = IF @.id # 0
                             THEN [@ EXCEPT !.visible = ~isFullMode /\ p.showArrows]
                             ELSE @,
           !.applyArrow = IF @.id # 0
                            THEN [@ EXCEPT !.visible = ~isFullMode /\ p.showArrows]
                            ELSE @,
           !.questionMark = IF @.id # 0
                              THEN [@ EXCEPT !.visible = ~isFullMode /\ p.showArrows]
                              ELSE @,
           !.spheres = [i \in 1..Len(@) |->
                          [@[i] EXCEPT !.visible = ~isFullMode /\ p.sphereCount > i - 1]]]
  IN [c EXCEPT
        !.pointsGroupVisible = ~isFullMode,
        !.labelsGroupVisible = ~isFullMode,
        !.analogyStates = [i \in 1..Len(@) |-> upd(@[i])],
        !.noVisualVisible = isFullMode]

\* --------------------------------------------------- canvas: scene entities
\* analogy objects built at the targets of the points, not where they are
NewAnalogyStateFromTargets(p, ps, analogy, base) ==
  LET normalizedPoints == normalize3D(p.points, pointCloud)
      initialScale == scaleByDimension(p.dimensions)
      fromIndex == FindIndex(normalizedPoints, analogy.from)
      toIndex == FindIndex(normalizedPoints, analogy.to)
      applyIndex == FindIndex(normalizedPoints, analogy.apply)
      state == [fromIndex |-> fromIndex, toIndex |-> toIndex,
                applyIndex |-> applyIndex, fromToArrow |-> NullArrow,
                applyArrow |-> NullArrow, questionMark |-> NullSprite,
                spheres |-> << >>]
  IN IF fromIndex = NotFound \/ toIndex = NotFound \/ applyIndex = NotFound
       THEN state
     ELSE IF fromIndex > Len(ps) \/ toIndex > Len(ps) \/ applyIndex > Len(ps)
       THEN state
     ELSE
       LET fromPos == ps[fromIndex].target
           toPos == ps[toIndex].target
           applyPos == ps[applyIndex].target
           difference == VSub(toPos, fromPos)
           lengthSq == LenSq(difference)
       IN [state EXCEPT
             !.fromToArrow = createThickArrow(difference, fromPos, lengthSq,
                                              base + 1, p.showArrows),
             !.applyArrow = createThickArrow(difference, applyPos, lengthSq,
                                             base + 2, p.showArrows),
             !.spheres = [i \in 1..resultCount |->
                            [id |-> base + 2 + i, visible |-> p.sphereCount > i - 1,
                             position |-> ZeroVec, scaleSq |-> FP * FP]],
             !.questionMark = [id |-> base + ObjectsPerAnalogy,
                               visible |-> p.showArrows,
                               position |-> ZeroVec,
                               scale |-> 2 * initialScale]]

\* The runtime state of one analogy, built from the current point states.
\* base is the number of objects constructed so far.
NewAnalogyState(p, ps, analogy, base) ==
  LET normalizedPoints == normalize3D(p.points, pointCloud)
      initialScale == scaleByDimension(p.dimensions)
      fromIndex == FindIndex(normalizedPoints, analogy.from)
      toIndex == FindIndex(normalizedPoints, analogy.to)
      applyIndex == FindIndex(normalizedPoints, analogy.apply)
      state == [fromIndex |-> fromIndex, toIndex |-> toIndex,
                applyIndex |-> applyIndex, fromToArrow |-> NullArrow,
                applyArrow |-> NullArrow, questionMark |-> NullSprite,
                spheres |-> << >>]
  IN IF fromIndex = NotFound \/ toIndex = NotFound \/ applyIndex = NotFound
       THEN state
     ELSE IF fromIndex > Len(ps) \/ toIndex > Len(ps) \/ applyIndex > Len(ps)
       THEN state
     ELSE
       LET fromPos == ps[fromIndex].current
           toPos == ps[toIndex].current
           applyPos == ps[applyIndex].current
           difference == VSub(toPos, fromPos)
           lengthSq == LenSq(difference)
       IN [state EXCEPT
             !.fromToArrow = createThickArrow(difference, fromPos, lengthSq,
                                              base + 1, p.showArrows),
             !.applyArrow = createThickArrow(difference, applyPos, lengthSq,
                                             base + 2, p.showArrows),
             !.spheres = [i \in 1..resultCount |->
                            [id |-> base + 2 + i, visible |-> p.sphereCount > i - 1,
                             position |-> ZeroVec, scaleSq |-> FP * FP]],
             !.questionMark = [id |-> base + ObjectsPerAnalogy,
                               visible |-> p.showArrows,
                               position |-> ZeroVec,
                               scale |-> 2 * initialScale]]

BuildAnalogyStates(p, ps, base) ==
  [i \in 1..Len(p.analogies) |->
     NewAnalogyState(p, ps, p.analogies[i], base + (i - 1) * ObjectsPerAnalogy)]

\* an initialization that lets every point fly in from the origin
initializePointsFromOrigin(p, c) ==
  IF Len(p.points) = 0 THEN c
  ELSE
    LET normalizedPoints == normalize3D(p.points, pointCloud)
        initialScale == scaleByDimension(p.dimensions)
        ps == [i \in 1..Len(normalizedPoints) |->
                 [current |-> ZeroVec,
                  velocity |-> ZeroVec,
                  target |-> Vec(normalizedPoints[i].x, normalizedPoints[i].y,
                                 normalizedPoints[i].z),
                  currentScale |-> initialScale,
                  scaleVelocity |-> 0,
                  targetScale |-> initialScale]]
    IN [c EXCEPT
          !.pointStates = ps,
          !.analogyStates = BuildAnalogyStates(p, ps, c.nextId),
          !.nextId = c.nextId + Len(p.analogies) * ObjectsPerAnalogy]

initializePoints(p, c) ==
  IF Len(p.points) = 0 THEN c
  ELSE
    LET normalizedPoints == normalize3D(p.points, pointCloud)
        initialScale == scaleByDimension(p.dimensions)
        ps == [i \in 1..Len(normalizedPoints) |->
                 [current |-> Vec(normalizedPoints[i].x, normalizedPoints[i].y,
                                  normalizedPoints[i].z),
                  velocity |-> ZeroVec,
                  target |-> Vec(normalizedPoints[i].x, normalizedPoints[i].y,
                                 normalizedPoints[i].z),
                  currentScale |-> initialScale,
                  scaleVelocity |-> 0,
                  targetScale |-> initialScale]]
    IN [c EXCEPT
          !.pointStates = ps,
          !.analogyStates = BuildAnalogyStates(p, ps, c.nextId),
          !.nextId = c.nextId + Len(p.analogies) * ObjectsPerAnalogy]

\* every object of every analogy leaves the scene, the list is emptied
cleanupAnalogies(c) == [c EXCEPT !.analogyStates = << >>]

\* a rebuild of the analogies that also brings every point to rest
initializeAnalogiesAtRest(p, c) ==
  IF Len(c.pointStates) = 0 THEN c
  ELSE [c EXCEPT
          !.pointStates = [i \in 1..Len(@) |->
                             [@[i] EXCEPT !.velocity = ZeroVec, !.scaleVelocity = 0]],
          !.analogyStates = BuildAnalogyStates(p, c.pointStates, c.nextId),
          !.nextId = c.nextId + Len(p.analogies) * ObjectsPerAnalogy]

initializeAnalogies(p, c) ==
  IF Len(c.pointStates) = 0 THEN c
  ELSE [c EXCEPT
          !.analogyStates = BuildAnalogyStates(p, c.pointStates, c.nextId),
          !.nextId = c.nextId + Len(p.analogies) * ObjectsPerAnalogy]

\* ------------------------------------------------------ canvas: motion field
\* a retargeting that jumps every point to its new target
updateTargetsSnapping(p, c) ==
  IF Len(p.points) = 0 THEN c
  ELSE
    LET normalizedPoints == normalize3D(p.points, pointCloud)
        targetScale == scaleByDimension(p.dimensions)
    IN [c EXCEPT
          !.pointStates =
             [i \in 1..Len(@) |->
                IF i <= Len(normalizedPoints)
                  THEN [@[i] EXCEPT
                          !.target = Vec(normalizedPoints[i].x, normalizedPoints[i].y,
                                         normalizedPoints[i].z),
                          !.current = Vec(normalizedPoints[i].x, normalizedPoints[i].y,
                                          normalizedPoints[i].z),
                          !.targetScale = targetScale]
                  ELSE @[i]]]

updateTargets(p, c) ==
  IF Len(p.points) = 0 THEN c
  ELSE
    LET normalizedPoints == normalize3D(p.points, pointCloud)
        targetScale == scaleByDimension(p.dimensions)
    IN [c EXCEPT
          !.pointStates =
             [i \in 1..Len(@) |->
                IF i <= Len(normalizedPoints)
                  THEN [@[i] EXCEPT
                          !.target = Vec(normalizedPoints[i].x, normalizedPoints[i].y,
                                         normalizedPoints[i].z),
                          !.targetScale = targetScale]
                  ELSE @[i]]]

\* an integration step that moves the point by the velocity of the frame
\* before
StepPointOldVelocity(state) ==
  LET displacement == VSub(state.current, state.target)
      springForce == VScale(displacement, -springK)
      dampingForce == VScale(state.velocity, -damping)
      totalForce == VAdd(springForce, dampingForce)
      velocity == VAdd(state.velocity, VRDiv(totalForce, dtInv))
      current == VAdd(state.current, VRDiv(state.velocity, dtInv))
      scaleDisplacement == state.currentScale - state.targetScale
      scaleSpringForce == -springK * scaleDisplacement
      scaleDampingForce == -damping * state.scaleVelocity
      scaleTotalForce == scaleSpringForce + scaleDampingForce
      scaleVelocity == state.scaleVelocity + RDiv(scaleTotalForce, dtInv)
      currentScale == state.currentScale + RDiv(state.scaleVelocity, dtInv)
  IN [state EXCEPT !.velocity = velocity, !.current = current,
                   !.scaleVelocity = scaleVelocity, !.currentScale = currentScale]

\* an integration step without the damping force
StepPointUndamped(state) ==
  LET displacement == VSub(state.current, state.target)
      totalForce == VScale(displacement, -springK)
      velocity == VAdd(state.velocity, VRDiv(totalForce, dtInv))
      current == VAdd(state.current, VRDiv(velocity, dtInv))
      scaleDisplacement == state.currentScale - state.targetScale
      scaleTotalForce == -springK * scaleDisplacement
      scaleVelocity == state.scaleVelocity + RDiv(scaleTotalForce, dtInv)
      currentScale == state.currentScale + RDiv(scaleVelocity, dtInv)
  IN [state EXCEPT !.velocity = velocity, !.current = current,
                   !.scaleVelocity = scaleVelocity, !.currentScale = currentScale]

\* one integration step of one point state
StepPoint(state) ==
  LET displacement == VSub(state.current, state.target)
      springForce == VScale(displacement, -springK)
      dampingForce == VScale(state.velocity, -damping)
      totalForce == VAdd(springForce, dampingForce)
      velocity == VAdd(state.velocity, VRDiv(totalForce, dtInv))
      current == VAdd(state.current, VRDiv(velocity, dtInv))
      scaleDisplacement == state.currentScale - state.targetScale
      scaleSpringForce == -springK * scaleDisplacement
      scaleDampingForce == -damping * state.scaleVelocity
      scaleTotalForce == scaleSpringForce + scaleDampingForce
      scaleVelocity == state.scaleVelocity + RDiv(scaleTotalForce, dtInv)
      currentScale == state.currentScale + RDiv(scaleVelocity, dtInv)
  IN [state EXCEPT !.velocity = velocity, !.current = current,
                   !.scaleVelocity = scaleVelocity, !.currentScale = currentScale]

\* pointsMesh exists exactly when initializePoints has built point states
updateSpringPhysics(c) ==
  IF Len(c.pointStates) = 0 THEN c
  ELSE [c EXCEPT !.pointStates = [i \in 1..Len(@) |-> StepPoint(@[i])]]


\* ------------------------------------------------------- canvas: the frame
RECURSIVE ConcatAll(_)
ConcatAll(ss) ==
  IF ss = << >> THEN << >>
  ELSE ConcatAll(SubSeq(ss, 1, Len(ss) - 1)) \o ss[Len(ss)]

\* an analogy pass that ranks every point but those of the analogy's own
\* three tokens
AnimateAnalogyExcludingOwn(p, ps, state, index) ==
  IF index > Len(p.analogies)
    THEN [state |-> state, pushed |-> << >>]
  ELSE IF state.fromIndex = NotFound \/ state.toIndex = NotFound
          \/ state.applyIndex = NotFound
    THEN [state |-> state, pushed |-> << DegenerateResult(p.analogies[index]) >>]
  ELSE IF state.fromIndex > Len(ps) \/ state.toIndex > Len(ps)
          \/ state.applyIndex > Len(ps)
    THEN [state |-> state, pushed |-> << >>]
  ELSE
    LET analogy == p.analogies[index]
        fromPos == ps[state.fromIndex].current
        toPos == ps[state.toIndex].current
        applyPos == ps[state.applyIndex].current
        difference == VSub(toPos, fromPos)
        lengthSq == LenSq(difference)
        \* applyPos + normalize(difference) * length: the normalized
        \* difference scaled back by its own length is the difference
        \* (normalize leaves the zero vector zero)
        tipPos == VAdd(applyPos, difference)
        nearestWithDistances ==
          Slice(SelectSeq(findNearestTokensWithDistances(tipPos, Len(ps),
                                                         p.points, ps),
                          LAMBDA d : d.token \notin {analogy.from, analogy.to,
                                                     analogy.apply}),
                resultCount)
    IN [state |->
          [state EXCEPT
             !.fromToArrow = IF @.id # 0
                               THEN updateThickArrow(@, difference, fromPos, lengthSq)
                               ELSE @,
             !.applyArrow = IF @.id # 0
                              THEN updateThickArrow(@, difference, applyPos, lengthSq)
                              ELSE @,
             !.questionMark = IF @.id # 0
                                THEN [@ EXCEPT !.position = tipPos,
                                               !.scale = 2 * ps[state.applyIndex].currentScale]
                                ELSE @,
             !.spheres = [i \in 1..Len(@) |->
                            [@[i] EXCEPT
                               !.position = tipPos,
                               !.scaleSq = IF i <= Len(nearestWithDistances)
                                             THEN nearestWithDistances[i].distance
                                             ELSE 0]]],
        pushed |->
          << [from |-> analogy.from, to |-> analogy.to, apply |-> analogy.apply,
              results |-> [i \in 1..Len(nearestWithDistances) |->
                             nearestWithDistances[i].token],
              color |-> analogy.color] >>]

\* an analogy pass that leaves a sphere without a ranked point at the scale
\* it had
AnimateAnalogyKeepingScale(p, ps, state, index) ==
  IF index > Len(p.analogies)
    THEN [state |-> state, pushed |-> << >>]
  ELSE IF state.fromIndex = NotFound \/ state.toIndex = NotFound
          \/ state.applyIndex = NotFound
    THEN [state |-> state, pushed |-> << DegenerateResult(p.analogies[index]) >>]
  ELSE IF state.fromIndex > Len(ps) \/ state.toIndex > Len(ps)
          \/ state.applyIndex > Len(ps)
    THEN [state |-> state, pushed |-> << >>]
  ELSE
    LET analogy == p.analogies[index]
        fromPos == ps[state.fromIndex].current
        toPos == ps[state.toIndex].current
        applyPos == ps[state.applyIndex].current
        difference == VSub(toPos, fromPos)
        lengthSq == LenSq(difference)
        \* applyPos + normalize(difference) * length: the normalized
        \* difference scaled back by its own length is the difference
        \* (normalize leaves the zero vector zero)
        tipPos == VAdd(applyPos, difference)
        nearestWithDistances ==
          findNearestTokensWithDistances(tipPos, resultCount, p.points, ps)
    IN [state |->
          [state EXCEPT
             !.fromToArrow = IF @.id # 0
                               THEN updateThickArrow(@, difference, fromPos, lengthSq)
                               ELSE @,
             !.applyArrow = IF @.id # 0
                              THEN updateThickArrow(@, difference, applyPos, lengthSq)
                              ELSE @,
             !.questionMark = IF @.id # 0
                                THEN [@ EXCEPT !.position = tipPos,
                                               !.scale = 2 * ps[state.applyIndex].currentScale]
                                ELSE @,
             !.spheres = [i \in 1..Len(@) |->
                            [@[i] EXCEPT
                               !.position = tipPos,
                               !.scaleSq = IF i <= Len(nearestWithDistances)
                                             THEN nearestWithDistances[i].distance
                                             ELSE @]]],
        pushed |->
          << [from |-> analogy.from, to |-> analogy.to, apply |-> analogy.apply,
              results |-> [i \in 1..Len(nearestWithDistances) |->
                             nearestWithDistances[i].token],
              color |-> analogy.color] >>]

\* The pass of animate over one analogy state: the updated state and the
\* results it pushes (none, or one).
AnimateAnalogy(p, ps, state, index) ==
  IF index > Len(p.analogies)
    THEN [state |-> state, pushed |-> << >>]
  ELSE IF state.fromIndex = NotFound \/ state.toIndex = NotFound
          \/ state.applyIndex = NotFound
    THEN [state |-> state, pushed |-> << DegenerateResult(p.analogies[index]) >>]
  ELSE IF state.fromIndex > Len(ps) \/ state.toIndex > Len(ps)
          \/ state.applyIndex > Len(ps)
    THEN [state |-> state, pushed |-> << >>]
  ELSE
    LET analogy == p.analogies[index]
        fromPos == ps[state.fromIndex].current
        toPos == ps[state.toIndex].current
        applyPos == ps[state.applyIndex].current
        difference == VSub(toPos, fromPos)
        lengthSq == LenSq(difference)
        \* applyPos + normalize(difference) * length: the normalized
        \* difference scaled back by its own length is the difference
        \* (normalize leaves the zero vector zero)
        tipPos == VAdd(applyPos, difference)
        nearestWithDistances ==
          findNearestTokensWithDistances(tipPos, resultCount, p.points, ps)
    IN [state |->
          [state EXCEPT
             !.fromToArrow = IF @.id # 0
                               THEN updateThickArrow(@, difference, fromPos, lengthSq)
                               ELSE @,
             !.applyArrow = IF @.id # 0
                              THEN updateThickArrow(@, difference, applyPos, lengthSq)
                              ELSE @,
             !.questionMark = IF @.id # 0
                                THEN [@ EXCEPT !.position = tipPos,
                                               !.scale = 2 * ps[state.applyIndex].currentScale]
                                ELSE @,
             !.spheres = [i \in 1..Len(@) |->
                            [@[i] EXCEPT
                               !.position = tipPos,
                               !.scaleSq = IF i <= Len(nearestWithDistances)
                                             THEN nearestWithDistances[i].distance
                                             ELSE 0]]],
        pushed |->
          << [from |-> analogy.from, to |-> analogy.to, apply |-> analogy.apply,
              results |-> [i \in 1..Len(nearestWithDistances) |->
                             nearestWithDistances[i].token],
              color |-> analogy.color] >>]

\* a frame that does not stop in full mode
animateInEveryMode(p, c) ==
  LET c1 == updateSpringPhysics(c)
      pass == [i \in 1..Len(c1.analogyStates) |->
                 AnimateAnalogy(p, c1.pointStates, c1.analogyStates[i], i)]
  IN [c1 EXCEPT
        !.analogyStates = [i \in 1..Len(pass) |-> pass[i].state],
        !.analogyResults = ConcatAll([i \in 1..Len(pass) |-> pass[i].pushed])]

\* a frame that runs the analogy pass on the positions of the frame before
\* and integrates afterwards
animateSolverFirst(p, c) ==
  IF p.projectionMode = Full THEN c
  ELSE
    LET pass == [i \in 1..Len(c.analogyStates) |->
                   AnimateAnalogy(p, c.pointStates, c.analogyStates[i], i)]
        c1 == updateSpringPhysics(c)
    IN [c1 EXCEPT
          !.analogyStates = [i \in 1..Len(pass) |-> pass[i].state],
          !.analogyResults = ConcatAll([i \in 1..Len(pass) |-> pass[i].pushed])]

\* the body of one animation frame
animate(p, c) ==
  IF p.projectionMode = Full THEN c
  ELSE
    LET c1 == updateSpringPhysics(c)
        pass == [i \in 1..Len(c1.analogyStates) |->
                   AnimateAnalogy(p, c1.pointStates, c1.analogyStates[i], i)]
    IN [c1 EXCEPT
          !.analogyStates = [i \in 1..Len(pass) |-> pass[i].state],
          !.analogyResults = ConcatAll([i \in 1..Len(pass) |-> pass[i].pushed])]

\* ------------------------------------------------------ canvas: watchers
\* a points watcher that empties the motion field when no point is delivered
WatchPointsClearing(p, c) ==
  IF p.projectionMode = Full
    THEN [c EXCEPT !.analogyResults = computeFullEmbeddingAnalogies(p)]
  ELSE IF Len(p.points) = 0 THEN [c EXCEPT !.pointStates = << >>]
  ELSE IF Len(c.pointStates) > 0 THEN updateTargets(p, c)
  ELSE initializePoints(p, c)

\* watch(() => props.points)
WatchPoints(p, c) ==
  IF p.projectionMode = Full
    THEN [c EXCEPT !.analogyResults = computeFullEmbeddingAnalogies(p)]
  ELSE IF Len(p.points) = 0 THEN c
  ELSE IF Len(c.pointStates) > 0 THEN updateTargets(p, c)
  ELSE initializePoints(p, c)

\* a mode watcher that removes the analogy objects on entering full mode
WatchProjectionModeRemoving(p, c) ==
  LET c1 == updateVisibility(p, c) IN
  IF p.projectionMode = Full
    THEN [cleanupAnalogies(c1) EXCEPT
            !.analogyResults = computeFullEmbeddingAnalogies(p)]
  ELSE IF Len(p.points) > 0 /\ Len(c1.pointStates) = 0
    THEN initializePoints(p, c1)
  ELSE c1

\* watch(() => props.projectionMode)
WatchProjectionMode(p, c) ==
  LET c1 == updateVisibility(p, c) IN
  IF p.projectionMode = Full
    THEN [c1 EXCEPT !.analogyResults = computeFullEmbeddingAnalogies(p)]
  ELSE IF Len(p.points) > 0 /\ Len(c1.pointStates) = 0
    THEN initializePoints(p, c1)
  ELSE c1

\* watch([() => props.showArrows, () => props.sphereCount])
WatchToggles(p, c) == updateVisibility(p, c)

\* watch(() => props.analogies)
WatchAnalogies(p, c) ==
  LET c1 == cleanupAnalogies(c) IN
  IF p.projectionMode = Full
    THEN [c1 EXCEPT !.analogyResults = computeFullEmbeddingAnalogies(p)]
  ELSE IF Len(c1.pointStates) > 0
    THEN updateVisibility(p, initializeAnalogies(p, c1))
  ELSE c1

\* the canvas before init has built anything
EmptyCanvas ==
  [ pointStates |-> << >>, analogyStates |-> << >>, analogyResults |-> << >>,
    pointsGroupVisible |-> TRUE, labelsGroupVisible |-> TRUE,
    noVisualVisible |-> FALSE, nextId |-> 0 ]

\* init(): groups, the hidden message, points or full-space results,
\* visibility, and the first frame
init(p, c) ==
  LET c1 == IF p.projectionMode # Full
              THEN initializePoints(p, c)
              ELSE [c EXCEPT !.analogyResults = computeFullEmbeddingAnalogies(p)]
  IN animate(p, updateVisibility(p, c1))

\* ------------------------------------------------------------ App: handlers
cycleProjectionMode(mode) ==
  IF mode = "pca_reduction" THEN "embedding_reduction"
  ELSE IF mode = "embedding_reduction" THEN "embedding_full"
  ELSE "pca_reduction"

\* a marker-count button that steps through every count up to resultCount
cycleSphereCountByOne(current) == (current + 1) % (resultCount + 1)

cycleSphereCount(current) ==
  IF current = 0 THEN 1 ELSE IF current = 1 THEN 5 ELSE 0

\* the dimension button of the three-value App: 3 -> 1 -> 2 -> 3
cycleDimensionsThree(d) == IF d = 3 THEN 1 ELSE IF d = 1 THEN 2 ELSE 3

cycleDimensions(d) ==
  IF d = 1 THEN 2 ELSE IF d = 2 THEN 3 ELSE IF d = 3 THEN 4
  ELSE IF d = 4 THEN 5 ELSE IF d = 5 THEN 50 ELSE 1

handleAnalogyUpdate(active, index, field, value) ==
  [active EXCEPT ![index] =
     IF field = "from" THEN [@ EXCEPT !.from = value]
     ELSE IF field = "to" THEN [@ EXCEPT !.to = value]
     ELSE [@ EXCEPT !.apply = value]]

FieldOf(analogy, field) ==
  IF field = "from" THEN analogy.from
  ELSE IF field = "to" THEN analogy.to ELSE analogy.apply

\* ---------------------------------------------------------------- actions
NoError == "null"

SetCanvas(c) ==
  /\ pointStates' = c.pointStates
  /\ analogyStates' = c.analogyStates
  /\ analogyResults' = c.analogyResults
  /\ pointsGroupVisible' = c.pointsGroupVisible
  /\ labelsGroupVisible' = c.labelsGroupVisible
  /\ noVisualVisible' = c.noVisualVisible
  /\ nextId' = c.nextId

canvasVars == << pointStates, analogyStates, analogyResults,
                 pointsGroupVisible, labelsGroupVisible, noVisualVisible,
                 nextId >>

\* no frame requested, no listener registered, no rotation
LoopIdle ==
  /\ animationId = 0
  /\ frameRequests = {}
  /\ listeners = {}
  /\ isInteracting = FALSE
  /\ currentSpeed = 0
  /\ unmounted = FALSE

\* the projector harness at rest
ProjectorIdle ==
  /\ projectorPoints = << >>
  /\ projectorScale = pointCloud
  /\ projectorOut = [done |-> FALSE, points |-> << >>]

\* the solver harness at rest
SolverIdle ==
  /\ solverPoints = << >>
  /\ solverTarget = << 0, 0, 0 >>
  /\ solverCount = resultCount
  /\ solverOut = [kind |-> "none", result |-> << >>]

\* everything but the point states
InitOutsideField ==
  /\ embeddings = << >>
  /\ loading = TRUE
  /\ error = NoError
  /\ dimensions = 3
  /\ projectionMode = "pca_reduction"
  /\ showArrows = TRUE
  /\ sphereCount = 5
  /\ activeAnalogies = defaultAnalogies
  /\ showAllAnalogies = FALSE
  /\ mounted = FALSE
  /\ analogyStates = << >>
  /\ analogyResults = << >>
  /\ pointsGroupVisible = TRUE
  /\ labelsGroupVisible = TRUE
  /\ noVisualVisible = FALSE
  /\ nextId = 0
  /\ ticks = 0
  /\ events = 0
  /\ edits = 0

InitApp == InitOutsideField /\ pointStates = << >>

Init == InitApp /\ SolverIdle /\ ProjectorIdle /\ LoopIdle

\* onMounted of the App: the fetch delivers the payload
LoadSuccess ==
  /\ loading
  /\ embeddings' = Dataset
  /\ loading' = FALSE
  /\ UNCHANGED << harnessVars, error, dimensions, projectionMode, showArrows, sphereCount,
                  activeAnalogies, showAllAnalogies, mounted, canvasVars,
                  ticks, events, edits >>

\* onMounted of the App: the fetch rejects or the response is not OK
LoadFailure ==
  /\ loading
  /\ error' = "Failed to load embeddings"
  /\ loading' = FALSE
  /\ UNCHANGED << harnessVars, embeddings, dimensions, projectionMode, showArrows,
                  sphereCount, activeAnalogies, showAllAnalogies, mounted,
                  canvasVars, ticks, events, edits >>

\* a template that renders the canvas whatever loading and error are
MountCanvasAlways ==
  /\ ~mounted
  /\ mounted' = TRUE
  /\ \E c \in {init(props, EmptyCanvas)} : SetCanvas(c)
  /\ UNCHANGED << harnessVars, appVars, ticks, events, edits >>

\* the template renders the canvas; its onMounted runs init()
MountCanvas ==
  /\ ~loading /\ error = NoError /\ ~mounted
  /\ mounted' = TRUE
  /\ \E c \in {init(props, EmptyCanvas)} : SetCanvas(c)
  /\ UNCHANGED << harnessVars, appVars, ticks, events, edits >>

\* requestAnimationFrame callback
Tick ==
  /\ mounted
  /\ ticks < MaxTicks
  /\ ticks' = ticks + 1
  /\ \E p \in {props} : \E c \in {animate(p, canvas)} : SetCanvas(c)
  /\ UNCHANGED << harnessVars, appVars, mounted, events, edits >>

\* settings: projection mode button; the points prop is recomputed, so the
\* points watcher runs before the projection-mode watcher
CycleProjectionMode ==
  /\ mounted
  /\ events < MaxEvents
  /\ events' = events + 1
  /\ projectionMode' = cycleProjectionMode(projectionMode)
  /\ \E p \in {PropsOf(embeddings, dimensions, projectionMode', showArrows,
                      sphereCount, activeAnalogies, showAllAnalogies)} :
       \E c \in {WatchProjectionMode(p, WatchPoints(p, canvas))} : SetCanvas(c)
  /\ UNCHANGED << harnessVars, embeddings, loading, error, dimensions, showArrows,
                  sphereCount, activeAnalogies, showAllAnalogies, mounted,
                  ticks, edits >>

\* bottom bar: dimension button; the points prop is recomputed
CycleDimensions ==
  /\ mounted
  /\ events < MaxEvents
  /\ events' = events + 1
  /\ dimensions' = cycleDimensions(dimensions)
  /\ \E p \in {PropsOf(embeddings, dimensions', projectionMode, showArrows,
                      sphereCount, activeAnalogies, showAllAnalogies)} :
       \E c \in {WatchPoints(p, canvas)} : SetCanvas(c)
  /\ UNCHANGED << harnessVars, embeddings, loading, error, projectionMode, showArrows,
                  sphereCount, activeAnalogies, showAllAnalogies, mounted,
                  ticks, edits >>

\* settings: arrows switch
ToggleArrows ==
  /\ mounted
  /\ events < MaxEvents
  /\ events' = events + 1
  /\ showArrows' = ~showArrows
  /\ \E p \in {PropsOf(embeddings, dimensions, projectionMode, showArrows',
                      sphereCount, activeAnalogies, showAllAnalogies)} :
       \E c \in {WatchToggles(p, canvas)} : SetCanvas(c)
  /\ UNCHANGED << harnessVars, embeddings, loading, error, dimensions, projectionMode,
                  sphereCount, activeAnalogies, showAllAnalogies, mounted,
                  ticks, edits >>

\* settings: distance spheres button
CycleSphereCount ==
  /\ mounted
  /\ events < MaxEvents
  /\ events' = events + 1
  /\ sphereCount' = cycleSphereCount(sphereCount)
  /\ \E p \in {PropsOf(embeddings, dimensions, projectionMode, showArrows,
                      sphereCount', activeAnalogies, showAllAnalogies)} :
       \E c \in {WatchToggles(p, canvas)} : SetCanvas(c)
  /\ UNCHANGED << harnessVars, embeddings, loading, error, dimensions, projectionMode,
                  showArrows, activeAnalogies, showAllAnalogies, mounted,
                  ticks, edits >>

\* settings: show-all-analogies switch; visibleAnalogies is a new list
ToggleShowAllAnalogies ==
  /\ mounted
  /\ events < MaxEvents
  /\ events' = events + 1
  /\ showAllAnalogies' = ~showAllAnalogies
  /\ \E p \in {PropsOf(embeddings, dimensions, projectionMode, showArrows,
                      sphereCount, activeAnalogies, showAllAnalogies')} :
       \E c \in {WatchAnalogies(p, canvas)} : SetCanvas(c)
  /\ UNCHANGED << harnessVars, embeddings, loading, error, dimensions, projectionMode,
                  showArrows, sphereCount, activeAnalogies, mounted,
                  ticks, edits >>

\* sidebar: one field of one visible analogy gets a new value
EditAnalogy(index, field, value) ==
  /\ mounted
  /\ events < MaxEvents
  /\ index <= Len(visibleAnalogies(activeAnalogies, showAllAnalogies))
  /\ FieldOf(activeAnalogies[index], field) # value
  /\ edits < MaxEdits
  /\ edits' = edits + 1
  /\ events' = events + 1
  /\ activeAnalogies' = handleAnalogyUpdate(activeAnalogies, index, field, value)
  /\ \E p \in {PropsOf(embeddings, dimensions, projectionMode, showArrows,
                      sphereCount, activeAnalogies', showAllAnalogies)} :
       \E c \in {WatchAnalogies(p, canvas)} : SetCanvas(c)
  /\ UNCHANGED << harnessVars, embeddings, loading, error, dimensions, projectionMode,
                  showArrows, sphereCount, showAllAnalogies, mounted, ticks >>

Next ==
  \/ LoadSuccess
  \/ LoadFailure
  \/ MountCanvas
  \/ Tick
  \/ CycleProjectionMode
  \/ CycleDimensions
  \/ ToggleArrows
  \/ CycleSphereCount
  \/ ToggleShowAllAnalogies
  \/ \E index \in 1..NumAnalogies, field \in Fields, value \in EditValues :
        EditAnalogy(index, field, value)

Spec == Init /\ [][Next]_vars

\* ------------------------------------- dimension and mode buttons alone
\* The same two handlers as CycleProjectionMode and CycleDimensions, with
\* room for MaxPresses presses and no other user event.
PressProjectionMode ==
  /\ mounted
  /\ events < MaxPresses
  /\ events' = events + 1
  /\ projectionMode' = cycleProjectionMode(projectionMode)
  /\ \E p \in {PropsOf(embeddings, dimensions, projectionMode', showArrows,
                      sphereCount, activeAnalogies, showAllAnalogies)} :
       \E c \in {WatchProjectionMode(p, WatchPoints(p, canvas))} : SetCanvas(c)
  /\ UNCHANGED << harnessVars, embeddings, loading, error, dimensions, showArrows,
                  sphereCount, activeAnalogies, showAllAnalogies, mounted,
                  ticks, edits >>

PressDimensions ==
  /\ mounted
  /\ events < MaxPresses
  /\ events' = events + 1
  /\ dimensions' = cycleDimensions(dimensions)
  /\ \E p \in {PropsOf(embeddings, dimensions', projectionMode, showArrows,
                      sphereCount, activeAnalogies, showAllAnalogies)} :
       \E c \in {WatchPoints(p, canvas)} : SetCanvas(c)
  /\ UNCHANGED << harnessVars, embeddings, loading, error, projectionMode, showArrows,
                  sphereCount, activeAnalogies, showAllAnalogies, mounted,
                  ticks, edits >>

NextView ==
  \/ LoadSuccess
  \/ LoadFailure
  \/ MountCanvas
  \/ Tick
  \/ PressProjectionMode
  \/ PressDimensions

SpecView == Init /\ [][NextView]_vars

\* --------------------------------------------- the load with any payload
\* What response.json() can deliver: the dataset, an empty list, or a list
\* whose vectors differ in length.
RaggedDataset ==
  << [token |-> "italy", embedding |-> << 0, 0, 0, 1 >>],
     [token |-> "pasta", embedding |-> << 1, 0 >>],
     [token |-> "japan", embedding |-> << 5, 5, 5, 0 >>],
     [token |-> "ramen", embedding |-> << 6, 5, 5 >>] >>

Payloads == { Dataset, << >>, RaggedDataset }

\* onMounted of the App: the fetch delivers some payload, installed as it is
LoadPayload ==
  /\ loading
  /\ embeddings' \in Payloads
  /\ loading' = FALSE
  /\ UNCHANGED << harnessVars, error, dimensions, projectionMode, showArrows,
                  sphereCount, activeAnalogies, showAllAnalogies, mounted,
                  canvasVars, ticks, events, edits >>

NextLoad ==
  \/ LoadPayload
  \/ LoadFailure
  \/ MountCanvas
  \/ Tick
  \/ CycleProjectionMode
  \/ CycleDimensions
  \/ ToggleArrows
  \/ CycleSphereCount
  \/ ToggleShowAllAnalogies
  \/ \E index \in 1..NumAnalogies, field \in Fields, value \in EditValues :
        EditAnalogy(index, field, value)

\* the fetch settles: its promise resolves or rejects, and the finally
\* block runs
SpecLoad == Init /\ [][NextLoad]_vars /\ WF_vars(LoadPayload \/ LoadFailure)

\* ------------------------------------------------ the frame loop on its own
\* The canvas from mount to unmount with the pointer events on its element:
\* requestAnimationFrame handles, the listeners of init and the auto-rotation
\* speed.  Speeds are counted in units of 1/SpeedUnit.
maxSpeed == 2 * SpeedUnit
accelerationRate == SpeedUnit \div 100
decelerationRate == (5 * SpeedUnit) \div 100

\* the listeners that init registers on renderer.domElement
InitListeners ==
  { [type |-> "mousemove", handler |-> "onMouseMove"],
    [type |-> "pointerdown", handler |-> "onInteractionStart"],
    [type |-> "pointerup", handler |-> "onInteractionEnd"],
    [type |-> "pointerleave", handler |-> "onInteractionEnd"] }

\* the loop state as one record, so that handlers compose
loop ==
  [ animationId |-> animationId, frameRequests |-> frameRequests,
    listeners |-> listeners, isInteracting |-> isInteracting,
    currentSpeed |-> currentSpeed ]

SetLoop(l) ==
  /\ animationId' = l.animationId
  /\ frameRequests' = l.frameRequests
  /\ listeners' = l.listeners
  /\ isInteracting' = l.isInteracting
  /\ currentSpeed' = l.currentSpeed

\* an auto-rotation step without the clamps
nextSpeedUnclamped(interacting, speed) ==
  IF interacting THEN speed - decelerationRate ELSE speed + accelerationRate

\* the auto-rotation speed after one frame
nextSpeed(interacting, speed) ==
  IF interacting THEN MaxInt(0, speed - decelerationRate)
  ELSE MinNat(maxSpeed, speed + accelerationRate)

\* requestAnimationFrame: a handle that is not the last one handed out
requestAnimationFrame(l) == (l.animationId % MaxHandles) + 1

\* the head of animate: the next frame is requested, the speed is stepped
animateLoop(l) ==
  [l EXCEPT !.animationId = requestAnimationFrame(l),
            !.frameRequests = @ \cup {requestAnimationFrame(l)},
            !.currentSpeed = nextSpeed(l.isInteracting, l.currentSpeed)]

\* what init adds to the loop state: the first call of animate, then the
\* listeners
initLoop(l) ==
  [animateLoop(l) EXCEPT !.listeners = @ \cup InitListeners]

\* a cleanup that leaves the requested frame pending
cleanupWithoutCancel(l) ==
  [l EXCEPT !.listeners = @ \ InitListeners]

cleanup(l) ==
  [l EXCEPT !.frameRequests = IF l.animationId # 0 THEN @ \ {l.animationId}
                              ELSE @,
            !.listeners = @ \ InitListeners]

\* the template renders the canvas; its onMounted runs init()
MountLoop ==
  /\ ~loading /\ error = NoError /\ ~mounted /\ ~unmounted
  /\ mounted' = TRUE
  /\ \E c \in {init(props, EmptyCanvas)} : SetCanvas(c)
  /\ \E l \in {initLoop(loop)} : SetLoop(l)
  /\ UNCHANGED << solverVars, projectorVars, unmounted, appVars, ticks,
                  events, edits >>

\* a pending frame request leaves the browser's list and its callback
\* starts: the head of animate
FrameCallback ==
  \E handle \in frameRequests :
    \E l \in {animateLoop([loop EXCEPT !.frameRequests = @ \ {handle}])} :
      SetLoop(l)

\* the browser runs the callback of a pending frame request: animate
Frame ==
  /\ FrameCallback
  /\ \E p \in {props} : \E c \in {animate(p, canvas)} : SetCanvas(c)
  /\ UNCHANGED << solverVars, projectorVars, unmounted, appVars, mounted,
                  ticks, events, edits >>

\* a pointer event on the renderer's element reaches the registered handler
PointerDown ==
  /\ [type |-> "pointerdown", handler |-> "onInteractionStart"] \in listeners
  /\ isInteracting' = TRUE
  /\ UNCHANGED << solverVars, projectorVars, appVars, mounted, canvasVars,
                  ticks, events, edits, animationId, frameRequests, listeners,
                  currentSpeed, unmounted >>

PointerUp ==
  /\ [type |-> "pointerup", handler |-> "onInteractionEnd"] \in listeners
  /\ isInteracting' = FALSE
  /\ UNCHANGED << solverVars, projectorVars, appVars, mounted, canvasVars,
                  ticks, events, edits, animationId, frameRequests, listeners,
                  currentSpeed, unmounted >>

PointerLeave ==
  /\ [type |-> "pointerleave", handler |-> "onInteractionEnd"] \in listeners
  /\ isInteracting' = FALSE
  /\ UNCHANGED << solverVars, projectorVars, appVars, mounted, canvasVars,
                  ticks, events, edits, animationId, frameRequests, listeners,
                  currentSpeed, unmounted >>

\* the canvas component is unmounted: onUnmounted runs cleanup()
Unmount ==
  /\ mounted
  /\ mounted' = FALSE
  /\ unmounted' = TRUE
  /\ \E l \in {cleanup(loop)} : SetLoop(l)
  /\ UNCHANGED << solverVars, projectorVars, appVars, canvasVars, ticks,
                  events, edits >>

NextLoop ==
  \/ LoadSuccess
  \/ LoadFailure
  \/ MountLoop
  \/ Frame
  \/ PointerDown
  \/ PointerUp
  \/ PointerLeave
  \/ Unmount

\* The browser runs a requested frame.  A FrameCallback step is a Frame step
\* and is possible exactly when a request is pending.
SpecLoop == Init /\ [][NextLoop]_vars /\ WF_frameVars(FrameCallback)

\* ------------------------------------------- the analogy solver on its own
\* Inputs of the two nearest-neighbour functions: up to MaxPoints points
\* with pairwise distinct tokens, a query and a count.
SolverVectors == { << 0, 0, 0 >>, << FP, 0, 0 >>, << 0, 2 * FP, 0 >> }
SolverTargets == { << 0, 0, 0 >>, << FP, FP, 0 >> }
SolverCounts == { 1, resultCount }

SolverInit ==
  /\ InitApp
  /\ ProjectorIdle
  /\ LoopIdle
  /\ \E n \in 0..MaxPoints :
       \E vs \in [1..n -> SolverVectors] :
         solverPoints = [i \in 1..n |-> [token |-> ToString(i), embedding |-> vs[i]]]
  /\ solverTarget \in SolverTargets
  /\ solverCount \in SolverCounts
  /\ solverOut = [kind |-> "none", result |-> << >>]

\* the point states whose current positions are the vectors of the points
SolverPointStates ==
  [i \in 1..Len(solverPoints) |->
     [current |-> Vec(solverPoints[i].embedding[1], solverPoints[i].embedding[2],
                      solverPoints[i].embedding[3])]]

SolveReduced ==
  /\ solverOut.kind = "none"
  /\ solverOut' =
       [kind |-> "reduced",
        result |-> findNearestTokensWithDistances(
                     Vec(solverTarget[1], solverTarget[2], solverTarget[3]),
                     solverCount, solverPoints, SolverPointStates)]
  /\ UNCHANGED << appVars, mounted, canvasVars, ticks, events, edits,
                  solverPoints, solverTarget, solverCount, projectorVars,
                  loopVars >>

SolveFull ==
  /\ solverOut.kind = "none"
  /\ solverOut' =
       [kind |-> "full",
        result |-> findNearestTokensFullEmbedding(solverTarget, solverCount,
                                                  solverPoints)]
  /\ UNCHANGED << appVars, mounted, canvasVars, ticks, events, edits,
                  solverPoints, solverTarget, solverCount, projectorVars,
                  loopVars >>

SolverNext == SolveReduced \/ SolveFull

SpecSolver == SolverInit /\ [][SolverNext]_vars

\* --------------------------------------------- the projector on its own
\* Inputs of normalize3D: up to MaxProjected points with distinct tokens;
\* the x and y axes can have a range or none, the z axis never has one.
ProjectorXs == { -2, 0, 3 }
ProjectorYs == { 0, 5 }
ProjectorZs == { 1 }
ProjectorScales == { 2, pointCloud }

ProjectorInit ==
  /\ InitApp
  /\ SolverIdle
  /\ LoopIdle
  /\ \E n \in 0..MaxProjected :
       \E xs \in [1..n -> ProjectorXs], ys \in [1..n -> ProjectorYs],
          zs \in [1..n -> ProjectorZs] :
         projectorPoints = [i \in 1..n |->
                              [token |-> ToString(i), x |-> xs[i], y |-> ys[i],
                               z |-> zs[i]]]
  /\ projectorScale \in ProjectorScales
  /\ projectorOut = [done |-> FALSE, points |-> << >>]

Normalize ==
  /\ ~projectorOut.done
  /\ projectorOut' = [done |-> TRUE,
                      points |-> normalize3D(projectorPoints, projectorScale)]
  /\ UNCHANGED << appVars, mounted, canvasVars, ticks, events, edits,
                  solverVars, projectorPoints, projectorScale, loopVars >>

ProjectorNext == Normalize

SpecProjector == ProjectorInit /\ [][ProjectorNext]_vars

\* ------------------------------------------- the motion field on its own
\* One point state with a fixed target, released away from it with some
\* velocity, and integrated frame after frame.  Values are in fixed-point
\* units; multiples of 30 (displacement) and 300 (velocity) make a step exact.
FieldDisplacements == { -600, -330, -30, 0, 7, 30, 270, 600 }
FieldVelocities == { -300, 0, 300 }
FieldTargets == { 0, 60 }
FieldScaleDisplacements == { -30, 0, 30 }

FieldInit ==
  /\ InitOutsideField
  /\ SolverIdle
  /\ ProjectorIdle
  /\ LoopIdle
  /\ \E t \in FieldTargets, d \in FieldDisplacements, v \in FieldVelocities,
        e \in FieldTargets, sd \in FieldScaleDisplacements :
       pointStates =
         << [current |-> Vec(t + d, e, 0),
             velocity |-> Vec(v, 0, 0),
             target |-> Vec(t, 0, 0),
             currentScale |-> FP + sd,
             scaleVelocity |-> 0,
             targetScale |-> FP] >>

\* a frame's call of updateSpringPhysics, nothing else touching the field
FieldStep ==
  /\ \E c \in {updateSpringPhysics(canvas)} : pointStates' = c.pointStates
  /\ UNCHANGED << appVars, mounted, analogyStates, analogyResults,
                  pointsGroupVisible, labelsGroupVisible, noVisualVisible,
                  nextId, ticks, events, edits, harnessVars >>

FieldNext == FieldStep

\* the frame loop keeps running: requestAnimationFrame re-arms itself
SpecField == FieldInit /\ [][FieldNext]_vars /\ WF_vars(FieldStep)


\* ======================================================================
\* Properties
\* ======================================================================
\* what the physics step owns of every point state
Motion(ps) ==
  [i \in 1..Len(ps) |->
     << ps[i].current, ps[i].velocity, ps[i].currentScale, ps[i].scaleVelocity >>]

HasEntities(state) == state.fromToArrow.id # 0

\* the identities of the objects of one analogy state
EntityIds(state) ==
  << state.fromToArrow.id, state.applyArrow.id, state.questionMark.id,
     [i \in 1..Len(state.spheres) |-> state.spheres[i].id] >>

Spatial == mounted /\ projectionMode # Full /\ Len(pointStates) > 0

TokenSet == {embeddings[i].token : i \in 1..Len(embeddings)}

HasAbsentToken(analogy) ==
  analogy.from \notin TokenSet \/ analogy.to \notin TokenSet
    \/ analogy.apply \notin TokenSet

\* C1: an edit of one field of one analogy config leaves the scene objects
\* of every other analogy the same objects (same identities) as before.
C1_OtherEntitiesKept ==
  [][ activeAnalogies' # activeAnalogies =>
        \A j \in 1..Len(analogyStates) :
          ( /\ j <= Len(activeAnalogies)
            /\ activeAnalogies'[j] = activeAnalogies[j]
            /\ HasEntities(analogyStates[j]) )
          => ( /\ j <= Len(analogyStates')
               /\ EntityIds(analogyStates'[j]) = EntityIds(analogyStates[j]) ) ]_vars

\* C2: in a spatial mode with initialized points there is exactly one
\* analogy scene state per active analogy config, state i built from config i.
C2_OneStatePerConfig ==
  Spatial =>
    /\ Len(analogyStates) = Len(props.analogies)
    /\ \A i \in 1..Len(analogyStates) :
         LET st == analogyStates[i]
             cfg == props.analogies[i]
         IN /\ st.fromIndex # NotFound => embeddings[st.fromIndex].token = cfg.from
            /\ st.toIndex # NotFound => embeddings[st.toIndex].token = cfg.to
            /\ st.applyIndex # NotFound => embeddings[st.applyIndex].token = cfg.apply


\* the normalized coordinates of a point set, as positions
NormalizedPositions(points) ==
  LET n == normalize3D(points, pointCloud)
  IN [i \in 1..Len(n) |-> Vec(n[i].x, n[i].y, n[i].z)]

C4_MotionOnlyInPhysics ==
  [][ (Len(pointStates) > 0 /\ ticks' = ticks)
      => Motion(pointStates') = Motion(pointStates) ]_vars

\* points in motion while analogies were edited
C4_Witness ==
  /\ Spatial /\ edits > 0 /\ ticks > 0
  /\ \E i \in 1..Len(pointStates) : pointStates[i].velocity # ZeroVec

\* an analogy state with every visibility flag cleared
Unseen(state) ==
  [state EXCEPT !.fromToArrow.visible = FALSE, !.applyArrow.visible = FALSE,
                !.questionMark.visible = FALSE,
                !.spheres = [i \in 1..Len(@) |-> [@[i] EXCEPT !.visible = FALSE]]]

\* the flags updateVisibility gives the objects of an analogy state
VisibleAsSet(state, mode, arrows, spheres) ==
  HasEntities(state) =>
    /\ state.fromToArrow.visible = (mode # Full /\ arrows)
    /\ state.applyArrow.visible = (mode # Full /\ arrows)
    /\ state.questionMark.visible = (mode # Full /\ arrows)
    /\ \A i \in 1..Len(state.spheres) :
         state.spheres[i].visible = (mode # Full /\ spheres > i - 1)

\* C5: a projection-mode switch or a toggle of showArrows / sphereCount
\* keeps the list of analogy states and all their objects (only visibility
\* flags may differ), and leaves every object visible exactly when the new
\* mode is spatial and its toggle is on, so that restoring the mode or the
\* toggle shows it again.
C5_HiddenNotDestroyed ==
  [][ ( /\ mounted
        /\ \/ projectionMode' # projectionMode
           \/ showArrows' # showArrows
           \/ sphereCount' # sphereCount )
      => ( /\ Len(analogyStates') = Len(analogyStates)
           /\ \A i \in 1..Len(analogyStates') :
                /\ Unseen(analogyStates'[i]) = Unseen(analogyStates[i])
                /\ VisibleAsSet(analogyStates'[i], projectionMode',
                                showArrows', sphereCount') ) ]_vars

\* full mode, the entities of the first analogy exist and are hidden
C5_Witness ==
  /\ mounted /\ projectionMode = Full /\ showArrows
  /\ Len(analogyStates) > 0
  /\ HasEntities(analogyStates[1])
  /\ ~analogyStates[1].fromToArrow.visible
  /\ Len(analogyStates[1].spheres) = resultCount
  /\ ~analogyStates[1].spheres[1].visible

PlaceholderResult(cfg) ==
  [from |-> cfg.from, to |-> cfg.to, apply |-> cfg.apply,
   results |-> << "?" >>, color |-> cfg.color]

NoEntities(state) ==
  /\ state.fromToArrow.id = 0 /\ state.applyArrow.id = 0
  /\ state.questionMark.id = 0 /\ state.spheres = << >>

C6_State ==
  mounted =>
    \A i \in 1..Len(props.analogies) :
      HasAbsentToken(props.analogies[i]) =>
        /\ i <= Len(analogyStates) => NoEntities(analogyStates[i])
        /\ projectionMode = Full =>
             /\ i <= Len(analogyResults)
             /\ analogyResults[i] = PlaceholderResult(props.analogies[i])

C6_Frame ==
  ( /\ (ticks' # ticks \/ mounted' # mounted)
    /\ projectionMode # Full )
  => \A i \in 1..Len(analogyStates') :
       (i <= Len(props.analogies) /\ HasAbsentToken(props.analogies[i])) =>
         /\ i <= Len(analogyResults')
         /\ analogyResults'[i] = PlaceholderResult(props.analogies[i])

\* C6: an analogy naming a token that is not in the token set owns no arrow,
\* question mark or sphere; its full-space result, and the result every
\* spatial frame publishes for it, is the one-placeholder result that echoes
\* from, to, apply and color.
C6_AbsentTokenDegenerate == [](C6_State) /\ [][C6_Frame]_vars

\* a spatial frame has published the placeholder result of an analogy with
\* an absent token
C6_Witness ==
  /\ Spatial /\ ticks > 0 /\ edits > 0
  /\ Len(analogyStates) > 0 /\ Len(analogyResults) > 0
  /\ HasAbsentToken(props.analogies[1])
  /\ analogyResults[1] = PlaceholderResult(props.analogies[1])

\* tokens of a solver answer, in answer order
AnswerTokens ==
  IF solverOut.kind = "reduced"
    THEN [i \in 1..Len(solverOut.result) |-> solverOut.result[i].token]
    ELSE solverOut.result

\* squared distance of the query to the point carrying a token
QueryDistSq(tok) ==
  LET e == (CHOOSE i \in 1..Len(solverPoints) : solverPoints[i].token = tok)
      v == solverPoints[e].embedding
  IN (v[1] - solverTarget[1]) * (v[1] - solverTarget[1])
     + (v[2] - solverTarget[2]) * (v[2] - solverTarget[2])
     + (v[3] - solverTarget[3]) * (v[3] - solverTarget[3])

\* C7: over n points with count K, both nearest-neighbour functions return
\* min(K, n) distinct tokens of the point set, in ascending order of
\* distance to the query, and no point left out is closer than one returned;
\* the reduced-space function reports each token's distance.
C7_NearestAscending ==
  solverOut.kind # "none" =>
    LET toks == AnswerTokens
        n == Len(solverPoints)
        k == Len(toks)
    IN /\ k = IF solverCount < n THEN solverCount ELSE n
       /\ \A i \in 1..k : \E j \in 1..n : solverPoints[j].token = toks[i]
       /\ \A i, j \in 1..k : i # j => toks[i] # toks[j]
       /\ \A i \in 1..(k - 1) : QueryDistSq(toks[i]) <= QueryDistSq(toks[i + 1])
       /\ \A j \in 1..n :
            (\A i \in 1..k : toks[i] # solverPoints[j].token)
              => \A i \in 1..k : QueryDistSq(toks[i]) <= QueryDistSq(solverPoints[j].token)
       /\ solverOut.kind = "reduced" =>
            \A i \in 1..k : solverOut.result[i].distance = QueryDistSq(toks[i])

\* more points than the count, and the answer is not the input order
C7_Witness ==
  /\ solverOut.kind = "full"
  /\ solverCount = resultCount
  /\ Len(solverPoints) > resultCount
  /\ Len(AnswerTokens) = resultCount
  /\ AnswerTokens # [i \in 1..resultCount |-> solverPoints[i].token]

\* apply + to - from of three positions, coordinate by coordinate
OffsetPosition(fromPos, toPos, applyPos) ==
  Vec(applyPos.x + toPos.x - fromPos.x,
      applyPos.y + toPos.y - fromPos.y,
      applyPos.z + toPos.z - fromPos.z)

\* the tip of analogy state st over point states ps
TipOf(st, ps) ==
  OffsetPosition(ps[st.fromIndex].current, ps[st.toIndex].current,
                 ps[st.applyIndex].current)

\* a step that runs the body of a frame: the first frame of init, or a tick
FrameStep == ticks' # ticks \/ mounted' # mounted

C8_Frame ==
  (FrameStep /\ projectionMode # Full) =>
    \A i \in 1..Len(analogyStates') :
      HasEntities(analogyStates'[i]) =>
        /\ analogyStates'[i].questionMark.position
             = TipOf(analogyStates'[i], pointStates')
        /\ \A k \in 1..Len(analogyStates'[i].spheres) :
             analogyStates'[i].spheres[k].position
               = TipOf(analogyStates'[i], pointStates')

C8_Full ==
  (mounted /\ projectionMode = Full) =>
    \A i \in 1..Len(props.analogies) :
      ~HasAbsentToken(props.analogies[i]) =>
        LET cfg == props.analogies[i]
            f == embeddings[FindIndex(embeddings, cfg.from)].embedding
            t == embeddings[FindIndex(embeddings, cfg.to)].embedding
            a == embeddings[FindIndex(embeddings, cfg.apply)].embedding
        IN /\ i <= Len(analogyResults)
           /\ analogyResults[i].results
                = findNearestTokensFullEmbedding(
                    [k \in 1..Len(a) |-> a[k] + t[k] - f[k]], resultCount,
                    embeddings)

C9_FromEmbeddingsAndConfigs ==
  (mounted /\ projectionMode = Full) =>
    analogyResults =
      computeFullEmbeddingAnalogies(
        [ points |-> << >>, dimensions |-> 0, projectionMode |-> Full,
          originalEmbeddings |-> embeddings, showArrows |-> FALSE,
          sphereCount |-> 0,
          analogies |-> visibleAnalogies(activeAnalogies, showAllAnalogies) ])

C9_TickInFull ==
  (ticks' # ticks /\ projectionMode = Full) => analogyResults' = analogyResults

\* C9: in full mode the published results are those computed from the
\* original embeddings and the visible analogy configs alone, whatever the
\* dimensions, toggles and positions in the scene are, and an animation
\* frame in full mode leaves them as they are.
C9_FullResultsIndependent ==
  [](C9_FromEmbeddingsAndConfigs) /\ [][C9_TickInFull]_vars

\* full mode after a frame, away from the default dimensions or toggles,
\* with points off their targets
C9_Witness ==
  /\ mounted /\ projectionMode = Full /\ ticks > 0
  /\ (dimensions # 3 \/ ~showArrows \/ sphereCount # 5)
  /\ Len(analogyResults) > 0
  /\ \E i \in 1..Len(pointStates) : pointStates[i].target # pointStates[i].current

C10_Spatial ==
  (FrameStep /\ projectionMode # Full /\ Len(pointStates') > 0) =>
    /\ ticks' # ticks =>
         pointStates' = [i \in 1..Len(pointStates) |-> StepPoint(pointStates[i])]
    /\ Len(analogyResults') = Len(analogyStates')
    /\ \A i \in 1..Len(analogyStates') :
         HasEntities(analogyStates'[i]) =>
           LET st == analogyStates'[i]
               nearest == findNearestTokensWithDistances(
                            TipOf(st, pointStates'), resultCount, props.points,
                            pointStates')
           IN /\ st.fromToArrow.position = pointStates'[st.fromIndex].current
              /\ st.applyArrow.position = pointStates'[st.applyIndex].current
              /\ st.fromToArrow.direction
                   = VSub(pointStates'[st.toIndex].current,
                          pointStates'[st.fromIndex].current)
              /\ analogyResults'[i].results
                   = [k \in 1..Len(nearest) |-> nearest[k].token]
              /\ \A k \in 1..Len(st.spheres) :
                   k <= Len(nearest) => st.spheres[k].scaleSq = nearest[k].distance

C10_Full ==
  ( /\ mounted /\ projectionMode = Full /\ projectionMode' = Full
    /\ activeAnalogies' = activeAnalogies
    /\ showAllAnalogies' = showAllAnalogies
    /\ dimensions' = dimensions
    /\ embeddings' = embeddings )
  => analogyResults' = analogyResults

\* C10: a spatial frame integrates the point states first and then derives
\* arrow geometry, sphere radii and the published nearest tokens from the
\* positions after the step; in full mode the results stay as they are
\* unless the analogy configs, the mode or the points change.
C10_PhysicsBeforeSolver == [][C10_Spatial]_vars /\ [][C10_Full]_vars

\* a frame has moved the points and published results for existing entities
C10_Witness ==
  /\ Spatial /\ ticks > 0
  /\ \E i \in 1..Len(pointStates) : pointStates[i].velocity # ZeroVec
  /\ Len(analogyStates) > 0 /\ HasEntities(analogyStates[1])
  /\ Len(analogyResults) = Len(analogyStates)
  /\ analogyStates[1].fromToArrow.position
       = pointStates[analogyStates[1].fromIndex].current

\* the tokens of a point list
TokensOf(points) == {points[i].token : i \in 1..Len(points)}

\* C11: when the token set of the points prop changes while point states
\* exist and the view stays in a spatial mode, the motion field ends with
\* exactly one point state per point of the new set.
C11_OneStatePerToken ==
  [][ ( /\ mounted /\ Len(pointStates) > 0
        /\ projectionMode' # Full
        /\ TokensOf(props'.points) # TokensOf(props.points) )
      => Len(pointStates') = Len(props'.points) ]_vars

\* C12: the step that creates the point states leaves one state per point of
\* the delivered set, in input order, at rest on its normalized coordinate:
\* current = target, zero velocity, currentScale = targetScale = the scale
\* of the dimensionality, zero scaleVelocity.
C12_InitialStates ==
  [][ (Len(pointStates) = 0 /\ Len(pointStates') > 0)
      => ( /\ Len(pointStates') = Len(props'.points)
           /\ \A i \in 1..Len(pointStates') :
                /\ pointStates'[i].current = NormalizedPositions(props'.points)[i]
                /\ pointStates'[i].target = NormalizedPositions(props'.points)[i]
                /\ pointStates'[i].velocity = ZeroVec
                /\ pointStates'[i].currentScale = scaleByDimension(dimensions')
                /\ pointStates'[i].targetScale = scaleByDimension(dimensions')
                /\ pointStates'[i].scaleVelocity = 0 ) ]_vars

\* the freshly initialized field of the loaded dataset
C12_Witness ==
  /\ mounted /\ events = 0 /\ ticks = 0
  /\ Len(pointStates) = Len(embeddings) /\ Len(pointStates) > 1
  /\ pointStates[1].current = pointStates[1].target
  /\ pointStates[1].current # pointStates[2].current

\* one axis of the update, with the numbers of the formula written out
AxisVelocity(cur, vel, tgt) == vel + RDiv((-120 * (cur - tgt) - 12 * vel), 60)
AxisPosition(cur, vel, tgt) == cur + RDiv(AxisVelocity(cur, vel, tgt), 60)

\* C13: one physics step gives every point, per axis,
\* velocity' = velocity + (-120*(current - target) - 12*velocity)/60 and
\* current' = current + velocity'/60 with the velocity just computed, does
\* the same to currentScale/scaleVelocity against targetScale, and leaves
\* target and targetScale as they were.
C13_SpringStep ==
  [][ \A i \in 1..Len(pointStates) :
        LET s == pointStates[i]
            n == pointStates'[i]
        IN /\ Len(pointStates') = Len(pointStates)
           /\ n.velocity = Vec(AxisVelocity(s.current.x, s.velocity.x, s.target.x),
                               AxisVelocity(s.current.y, s.velocity.y, s.target.y),
                               AxisVelocity(s.current.z, s.velocity.z, s.target.z))
           /\ n.current = Vec(AxisPosition(s.current.x, s.velocity.x, s.target.x),
                              AxisPosition(s.current.y, s.velocity.y, s.target.y),
                              AxisPosition(s.current.z, s.velocity.z, s.target.z))
           /\ n.scaleVelocity
                = AxisVelocity(s.currentScale, s.scaleVelocity, s.targetScale)
           /\ n.currentScale
                = AxisPosition(s.currentScale, s.scaleVelocity, s.targetScale)
           /\ n.target = s.target
           /\ n.targetScale = s.targetScale ]_vars

\* a point in flight: moving, away from its target, with the scale moving too
C13_Witness ==
  /\ Len(pointStates) = 1
  /\ pointStates[1].velocity.x # 0 /\ pointStates[1].velocity.y # 0
  /\ pointStates[1].current.x # pointStates[1].target.x
  /\ pointStates[1].scaleVelocity # 0
  /\ pointStates[1].currentScale # pointStates[1].targetScale

\* distance below which a point counts as arrived: 1/20 of a world unit
SettleDistance == FP \div 20

Abs(a) == IF a < 0 THEN -a ELSE a

\* the integrator no longer changes the state, and the point and its scale
\* are at the target up to SettleDistance
FieldSettled ==
  \A i \in 1..Len(pointStates) :
    LET s == pointStates[i]
    IN /\ StepPoint(s) = s
       /\ Abs(s.current.x - s.target.x) <= SettleDistance
       /\ Abs(s.current.y - s.target.y) <= SettleDistance
       /\ Abs(s.current.z - s.target.z) <= SettleDistance
       /\ Abs(s.currentScale - s.targetScale) <= SettleDistance

\* The quadratic form E(d, v) = 300 d^2 + 25 d v + 2 v^2 of displacement d
\* and velocity v is positive definite, and the update of C13 with k = 120,
\* c = 12, dt = 1/60 maps it to exactly 4/5 of its value.
AxisEnergy(d, v) == 300 * d * d + 25 * d * v + 2 * v * v

\* displacement and velocity for which the divisions of a step are exact
ExactAxis(d, v) == d % 30 = 0 /\ v % 300 = 0

AxisContracts(cur, vel, tgt, cur2, vel2) ==
  ExactAxis(cur - tgt, vel) =>
    5 * AxisEnergy(cur2 - tgt, vel2) = 4 * AxisEnergy(cur - tgt, vel)

C14_Contraction ==
  \A i \in 1..Len(pointStates) :
    LET s == pointStates[i]
        n == pointStates'[i]
    IN /\ AxisContracts(s.current.x, s.velocity.x, s.target.x,
                        n.current.x, n.velocity.x)
       /\ AxisContracts(s.current.y, s.velocity.y, s.target.y,
                        n.current.y, n.velocity.y)
       /\ AxisContracts(s.current.z, s.velocity.z, s.target.z,
                        n.current.z, n.velocity.z)
       /\ AxisContracts(s.currentScale, s.scaleVelocity, s.targetScale,
                        n.currentScale, n.scaleVelocity)

\* C14: with a fixed target and nothing but physics steps, a point state
\* eventually stays at its target (within SettleDistance, the integrator
\* changing nothing any more), and every step whose arithmetic is exact
\* shrinks the energy of displacement and velocity to 4/5, so the
\* oscillation's peaks decrease.
C14_Converges == <>[]FieldSettled /\ [][C14_Contraction]_vars

\* a point that came to rest after being released: its residual velocity
\* is none of the velocities it can be released with
C14_Witness ==
  /\ Len(pointStates) = 1
  /\ FieldSettled
  /\ pointStates[1].velocity.x \notin FieldVelocities
  /\ pointStates[1].target.x = 60

\* one axis of a normalized set against the same axis of its input: in is
\* the sequence of input values (world units), out of output values
\* (fixed-point units), S the scale
AxisNormalized(in, out, S) ==
  LET lo == CHOOSE v \in Range(in) : \A w \in Range(in) : v <= w
      hi == CHOOSE v \in Range(in) : \A w \in Range(in) : w <= v
  IN IF hi - lo # 0
       THEN \A i \in 1..Len(in) :
              /\ 2 * out[i] >= -(S * FP)
              /\ 2 * out[i] <= S * FP
              /\ in[i] = lo => 2 * out[i] = -(S * FP)
              /\ in[i] = hi => 2 * out[i] = S * FP
       ELSE \A i \in 1..Len(in) : out[i] = in[i] * FP

\* C15: normalize3D with scale S keeps the tokens and their order, maps
\* every axis with a nonzero input range into [-S/2, S/2] with the minimum
\* at -S/2 and the maximum at +S/2, and leaves every axis with zero range at
\* its input values.
C15_NormalizedRange ==
  projectorOut.done =>
    LET in == projectorPoints
        out == projectorOut.points
        n == Len(in)
    IN /\ Len(out) = n
       /\ \A i \in 1..n : out[i].token = in[i].token
       /\ n > 0 =>
            /\ AxisNormalized([i \in 1..n |-> in[i].x], [i \in 1..n |-> out[i].x],
                              projectorScale)
            /\ AxisNormalized([i \in 1..n |-> in[i].y], [i \in 1..n |-> out[i].y],
                              projectorScale)
            /\ AxisNormalized([i \in 1..n |-> in[i].z], [i \in 1..n |-> out[i].z],
                              projectorScale)

\* a normalized set with a range on x, none on y and none on z
C15_Witness ==
  /\ projectorOut.done
  /\ Len(projectorPoints) = 3
  /\ projectorPoints[1].x # projectorPoints[2].x
  /\ \A i \in 1..3 : projectorPoints[i].y = 5
  /\ projectorOut.points[1].x # projectorOut.points[2].x
  /\ projectorOut.points[3].y = 5 * FP

\* C16: an empty point set is no error: normalize3D of the empty list is
\* the empty list, and a step other than a frame that delivers an empty
\* points prop to the canvas (mount, dimension or mode change) creates no
\* point state and changes none.
C16_EmptyPointSet ==
  /\ [](normalize3D(<< >>, pointCloud) = << >>)
  /\ [][ (mounted' /\ ticks' = ticks /\ Len(props'.points) = 0)
         => pointStates' = pointStates ]_vars

\* existing point states in flight while the points prop is empty
C16_Witness ==
  /\ mounted /\ projectionMode # Full
  /\ Len(props.points) = 0
  /\ Len(pointStates) > 0
  /\ \E i \in 1..Len(pointStates) : pointStates[i].target # pointStates[i].current

\* nothing of the canvas exists
CanvasAbsent ==
  /\ ~mounted
  /\ pointStates = << >> /\ analogyStates = << >> /\ analogyResults = << >>
  /\ nextId = 0

C17_FailureStep ==
  LoadFailure => (error' # NoError /\ embeddings' = << >> /\ ~loading')

C17_State ==
  /\ error # NoError => (embeddings = << >> /\ ~loading /\ CanvasAbsent)
  /\ loading => CanvasAbsent
  /\ mounted => (~loading /\ error = NoError)

\* C17: a failed load sets error to a message, leaves the embedding set
\* empty and ends loading; while error is set or loading lasts nothing of
\* the canvas exists, so the canvas is mounted only with loading false and
\* error null; and loading eventually becomes false.
C17_LoadFailureReported ==
  /\ [][C17_FailureStep]_vars
  /\ [](C17_State)
  /\ <>(~loading)

\* the failed load: error shown, nothing else built
C17_Witness ==
  /\ error # NoError /\ ~loading
  /\ embeddings = << >> /\ CanvasAbsent

\* C18: an installed embedding set never has vectors of differing length:
\* a payload with such vectors is rejected with an error.
C18_RaggedRejected ==
  \A i, j \in 1..Len(embeddings) :
    Len(embeddings[i].embedding) = Len(embeddings[j].embedding)

\* C19: once the canvas is mounted, in every state between handlers each
\* analogy's two arrows and question mark are visible exactly when the mode
\* is not full and showArrows is on, the points and labels groups exactly
\* when the mode is not full, and the 'No Visual Possible' message exactly
\* when the mode is full.
C19_VisibilityFollowsModeAndToggle ==
  mounted =>
    /\ pointsGroupVisible = (projectionMode # Full)
    /\ labelsGroupVisible = (projectionMode # Full)
    /\ noVisualVisible = (projectionMode = Full)
    /\ \A i \in 1..Len(analogyStates) :
         HasEntities(analogyStates[i]) =>
           /\ analogyStates[i].fromToArrow.visible
                = (projectionMode # Full /\ showArrows)
           /\ analogyStates[i].applyArrow.visible
                = (projectionMode # Full /\ showArrows)
           /\ analogyStates[i].questionMark.visible
                = (projectionMode # Full /\ showArrows)

\* entities built by an analogy edit while the arrows are switched off
C19_Witness ==
  /\ mounted /\ projectionMode # Full /\ ~showArrows /\ edits > 0
  /\ \E i \in 1..Len(analogyStates) :
       /\ HasEntities(analogyStates[i])
       /\ ~analogyStates[i].fromToArrow.visible

\* C20: after a frame in a spatial mode with initialized points the
\* published analogyResults has exactly one entry per active analogy config,
\* in config order, entry i echoing from, to, apply and color of config i.
C20_ResultsEchoConfigs ==
  [][ (ticks' # ticks /\ projectionMode # Full /\ Len(pointStates) > 0)
      => ( /\ Len(analogyResults') = Len(props.analogies)
           /\ \A i \in 1..Len(analogyResults') :
                /\ i <= Len(props.analogies)
                /\ analogyResults'[i].from = props.analogies[i].from
                /\ analogyResults'[i].to = props.analogies[i].to
                /\ analogyResults'[i].apply = props.analogies[i].apply
                /\ analogyResults'[i].color = props.analogies[i].color ) ]_vars

\* C21: in a spatial mode with initialized points, every point's target is
\* the normalized coordinate of the points prop at its index and its
\* targetScale is the scale of the current dimensionality, whatever the
\* order of dimension and mode changes was.
C21_TargetsFollowProps ==
  Spatial =>
    \A i \in 1..Len(pointStates) :
      /\ i <= Len(props.points) =>
           pointStates[i].target = NormalizedPositions(props.points)[i]
      /\ pointStates[i].targetScale = scaleByDimension(dimensions)

\* what is drawn of an arrow along its axis: stem plus head when the group
\* is visible, nothing otherwise
ArrowExtent(arrowGroup) ==
  IF arrowGroup.visible THEN arrowGroup.stemLength + headLength ELSE 0

\* C24: an arrow whose from and to positions coincide (zero-length
\* direction) is a zero-length or invisible indicator: nothing of it is
\* drawn.
C24_ZeroLengthInvisible ==
  \A i \in 1..Len(analogyStates) :
    HasEntities(analogyStates[i]) =>
      /\ analogyStates[i].fromToArrow.lengthSq = 0
           => ArrowExtent(analogyStates[i].fromToArrow) = 0
      /\ analogyStates[i].applyArrow.lengthSq = 0
           => ArrowExtent(analogyStates[i].applyArrow) = 0

\* length of an arrow as drawn along its axis, from the origin to the tip
\* of the head
DrawnLength(arrowGroup) == arrowGroup.stemLength + headLength

C22_Frame ==
  (FrameStep /\ projectionMode # Full /\ Len(pointStates') > 0) =>
    \A i \in 1..Len(analogyStates') :
      HasEntities(analogyStates'[i]) =>
        LET st == analogyStates'[i]
            fromPos == pointStates'[st.fromIndex].current
            toPos == pointStates'[st.toIndex].current
            applyPos == pointStates'[st.applyIndex].current
        IN /\ st.fromToArrow.position = fromPos
           /\ st.applyArrow.position = applyPos
           /\ st.fromToArrow.direction = VSub(toPos, fromPos)
           /\ st.applyArrow.direction = st.fromToArrow.direction
           /\ DrawnLength(st.fromToArrow) = ISqrt(DistSq(fromPos, toPos))
           /\ DrawnLength(st.applyArrow) = ISqrt(DistSq(fromPos, toPos))
           /\ st.questionMark.position = VAdd(applyPos, VSub(toPos, fromPos))
           /\ \A k \in 1..Len(st.spheres) :
                st.spheres[k].position = VAdd(applyPos, VSub(toPos, fromPos))

\* C22: after each frame in a spatial mode, for every analogy whose three
\* tokens were found, the from-to arrow starts at the current position of
\* from, the apply arrow at the current position of apply, both arrows have
\* the direction of to - from and are drawn as long as the distance between
\* from and to, and the question mark and every sphere sit at the analogy
\* target point apply + (to - from).
C22_ArrowsAndMarkersFollowPoints == [][C22_Frame]_vars

\* the token the solver publishes for the point state at index j
TokenAt(points, j) == IF j <= Len(points) THEN points[j].token ELSE Placeholder

C23_Frame ==
  (FrameStep /\ projectionMode # Full /\ Len(pointStates') > 0) =>
    \A i \in 1..Len(analogyStates') :
      HasEntities(analogyStates'[i]) =>
        LET st == analogyStates'[i]
            tip == TipOf(st, pointStates')
            results == analogyResults'[i].results
            n == MinNat(resultCount, Len(pointStates'))
            dist(j) == DistSq(tip, pointStates'[j].current)
        IN /\ Len(results) = n
           /\ Len(st.spheres) = resultCount
           \* rank[k] is the index of the k-th nearest point
           /\ \E rank \in [1..n -> 1..Len(pointStates')] :
                /\ \A k, m \in 1..n : k # m => rank[k] # rank[m]
                /\ \A k \in 1..n :
                     /\ st.spheres[k].scaleSq = dist(rank[k])
                     /\ results[k] = TokenAt(props.points, rank[k])
                     /\ \A m \in k..n : dist(rank[k]) <= dist(rank[m])
                     /\ \A j \in 1..Len(pointStates') :
                          (\A m \in 1..n : rank[m] # j)
                            => dist(rank[k]) <= dist(j)
           /\ \A k \in 2..n : st.spheres[k - 1].scaleSq <= st.spheres[k].scaleSq
           /\ \A k \in (n + 1)..resultCount : st.spheres[k].scaleSq = 0

\* C23: after each frame in a spatial mode the scale of the k-th sphere of
\* an analogy is the distance from the analogy target point to the current
\* position of the k-th nearest point, the k-th published result token is
\* the token of that same point, the radii do not decrease with the rank,
\* and a sphere beyond the number of ranked points has scale 0.
C23_SphereRadiiAreRankedDistances == [][C23_Frame]_vars

\* a frame has run on four points: four ranked spheres of growing radius,
\* the fifth without a point
C23_Witness ==
  /\ Spatial /\ ticks > 0
  /\ Len(pointStates) < resultCount
  /\ Len(analogyStates) > 0 /\ HasEntities(analogyStates[1])
  /\ Len(analogyResults) > 0
  /\ Len(analogyResults[1].results) = Len(pointStates)
  /\ analogyStates[1].spheres[1].scaleSq
       < analogyStates[1].spheres[Len(pointStates)].scaleSq
  /\ analogyStates[1].spheres[resultCount].scaleSq = 0

C25_Edit ==
  (edits' # edits /\ mounted /\ projectionMode # Full) =>
    /\ pointStates' = pointStates
    /\ \A i \in 1..Len(analogyStates') :
         HasEntities(analogyStates'[i]) =>
           LET st == analogyStates'[i]
               fromPos == pointStates[st.fromIndex].current
               toPos == pointStates[st.toIndex].current
               applyPos == pointStates[st.applyIndex].current
           IN /\ st.fromToArrow.id > nextId
              /\ st.applyArrow.id > nextId
              /\ st.fromToArrow.position = fromPos
              /\ st.applyArrow.position = applyPos
              /\ st.fromToArrow.direction = VSub(toPos, fromPos)
              /\ st.applyArrow.direction = VSub(toPos, fromPos)
              /\ st.fromToArrow.lengthSq = DistSq(fromPos, toPos)
              /\ st.applyArrow.lengthSq = DistSq(fromPos, toPos)

C26_MarkerCountAndVisibility ==
  /\ sphereCount \in {0, 1, 5}
  /\ \A i \in 1..Len(analogyStates) :
       HasEntities(analogyStates[i]) =>
         /\ Len(analogyStates[i].spheres) = 5
         /\ (mounted /\ projectionMode # Full) =>
              \A k \in 1..Len(analogyStates[i].spheres) :
                analogyStates[i].spheres[k].visible <=> k <= sphereCount

\* one marker shown after presses of the marker button: the first sphere of
\* rebuilt entities is visible, the other four are not
C26_Witness ==
  /\ Spatial /\ sphereCount = 1 /\ edits > 0
  /\ Len(analogyStates) > 0 /\ HasEntities(analogyStates[1])
  /\ analogyStates[1].spheres[1].visible
  /\ \A k \in 2..5 : ~analogyStates[1].spheres[k].visible

C27_Frame ==
  (FrameStep /\ projectionMode # Full /\ Len(pointStates') > 0) =>
    \A i \in 1..Len(analogyStates') :
      HasEntities(analogyStates'[i]) =>
        LET st == analogyStates'[i]
            tip == TipOf(st, pointStates')
            results == analogyResults'[i].results
            dist(j) == DistSq(tip, pointStates'[j].current)
        IN \A j \in {st.fromIndex, st.toIndex, st.applyIndex} :
             j <= Len(props.points) =>
               \/ props.points[j].token \in Range(results)
               \/ /\ Len(results) = resultCount
                  /\ \A m \in 1..Len(props.points) :
                       props.points[m].token \in Range(results)
                         => dist(m) <= dist(j)

C27_Full ==
  (mounted /\ projectionMode = Full) =>
    \A i \in 1..Len(props.analogies) :
      ~HasAbsentToken(props.analogies[i]) =>
        LET cfg == props.analogies[i]
            target == resultEmbedding(
                        embeddings[FindIndex(embeddings, cfg.from)].embedding,
                        embeddings[FindIndex(embeddings, cfg.to)].embedding,
                        embeddings[FindIndex(embeddings, cfg.apply)].embedding)
            dist(tok) == SumSq(target,
                               embeddings[FindIndex(embeddings, tok)].embedding,
                               Len(target))
        IN /\ i <= Len(analogyResults)
           /\ \A tok \in {cfg.from, cfg.to, cfg.apply} :
                \/ tok \in Range(analogyResults[i].results)
                \/ /\ Len(analogyResults[i].results) = resultCount
                   /\ \A r \in Range(analogyResults[i].results) :
                        dist(r) <= dist(tok)

\* C27: the nearest-neighbour search ranks every token, the analogy's own
\* from, to and apply tokens included: an own token is left out of a result
\* list only when the list is full of tokens that are at least as near, in
\* the frames of a spatial mode and in full mode alike.
C27_OwnTokensAreCandidates == [](C27_Full) /\ [][C27_Frame]_vars

\* a published result list that names all three tokens of its own analogy
C27_Witness ==
  /\ Spatial /\ ticks > 0
  /\ Len(analogyResults) > 0 /\ Len(analogyStates) > 0
  /\ HasEntities(analogyStates[1])
  /\ {analogyResults[1].from, analogyResults[1].to, analogyResults[1].apply}
       \subseteq Range(analogyResults[1].results)
  /\ Cardinality({analogyResults[1].from, analogyResults[1].to,
                  analogyResults[1].apply}) = 3

\* a step that runs the callback of a frame request
FrameRuns == animationId' # animationId /\ animationId # 0

C28_State ==
  /\ Cardinality(frameRequests) <= 1
  /\ frameRequests \subseteq {animationId}
  /\ unmounted => (frameRequests = {} /\ listeners \cap InitListeners = {})

C28_Step == unmounted => (~FrameRuns /\ UNCHANGED << canvasVars, loopVars >>)

C29_Range == 0 <= currentSpeed /\ currentSpeed <= maxSpeed

C29_Step ==
  IF animationId' # animationId
    THEN /\ isInteracting =>
              \/ currentSpeed' = currentSpeed - decelerationRate
              \/ currentSpeed < decelerationRate /\ currentSpeed' = 0
         /\ ~isInteracting =>
              \/ currentSpeed' = currentSpeed + accelerationRate
              \/ currentSpeed + accelerationRate > maxSpeed
                   /\ currentSpeed' = maxSpeed
    ELSE currentSpeed' = currentSpeed

C29_InteractionStops ==
  (mounted /\ isInteracting) ~> (currentSpeed = 0 \/ ~isInteracting \/ unmounted)

C29_IdleReachesMax ==
  (mounted /\ ~isInteracting)
    ~> (currentSpeed = maxSpeed \/ isInteracting \/ unmounted)

\* C29: the auto-rotation speed stays within [0, maxSpeed]; every frame
\* lowers it by decelerationRate, not below 0, while the user interacts and
\* raises it by accelerationRate, not above maxSpeed, otherwise, and nothing
\* else changes it; an interaction that is not interrupted brings the
\* rotation to a stop, and idling that is not interrupted brings it to
\* maxSpeed.
C29_RotationSpeedBounded ==
  /\ [](C29_Range)
  /\ [][C29_Step]_vars
  /\ C29_InteractionStops
  /\ C29_IdleReachesMax

\* the rotation has reached full speed while nobody touches the canvas
C29_Witness ==
  /\ mounted /\ ~isInteracting
  /\ currentSpeed = maxSpeed
  /\ Cardinality(frameRequests) = 1

\* the values of the dimension button and the order it steps through
AllowedDimensions == {1, 2, 3, 4, 5, 50}
DimensionOrder == << 1, 2, 3, 4, 5, 50 >>

\* the dimensionality after n presses, starting from d
RECURSIVE AfterPresses(_, _)
AfterPresses(d, n) ==
  IF n = 0 THEN d ELSE cycleDimensions(AfterPresses(d, n - 1))

C30_State ==
  /\ dimensions \in AllowedDimensions
  \* every allowed value is reached from the current one
  /\ {AfterPresses(dimensions, n) : n \in 0..5} = AllowedDimensions
  \* the current value comes back after six presses and not before
  /\ AfterPresses(dimensions, 6) = dimensions
  /\ \A n \in 1..5 : AfterPresses(dimensions, n) # dimensions
  \* points for the scene exist only at 1, 2 or 3 dimensions
  /\ Len(props.points) > 0 => dimensions \in {1, 2, 3}
  /\ (dimensions \in {1, 2, 3} /\ Len(embeddings) > 0) => Len(props.points) > 0

C30_Step ==
  dimensions' # dimensions =>
    \E k \in 1..6 :
      /\ dimensions = DimensionOrder[k]
      /\ dimensions' = DimensionOrder[(k % 6) + 1]

\* C30: the dimension button steps 1 -> 2 -> 3 -> 4 -> 5 -> 50 -> 1: the
\* value is always one of the six, every one of them is reached from every
\* other, the starting value comes back after exactly six presses, and the
\* points prop is non-empty only when the dimensionality is 1, 2 or 3.
C30_DimensionCycle == [](C30_State) /\ [][C30_Step]_vars

\* four presses from 3: through 4, 5 and 50 (no points) back to 1, where
\* the points are supplied again
C30_Witness ==
  /\ mounted /\ events = 4 /\ dimensions = 1
  /\ projectionMode = "pca_reduction"
  /\ Len(props.points) = Len(embeddings) /\ Len(props.points) > 0
  /\ \A i \in 1..Len(props.points) :
       props.points[i].y = 0 /\ props.points[i].z = 0

====
